---- MODULE Spec2Model ----
(***************************************************************************)
(* vid2subs: the sentence segmenter (segmentation/sentence_segmenter.py),  *)
(* the translation backends (translate/*.py), the subtitle writers         *)
(* (subtitles/*.py) and the pipeline (pipeline.py) as state machines.      *)
(*                                                                         *)
(* Text is a sequence of one-character strings.  In the segmenter the      *)
(* Python indices (last_breakable_idx, break_index, idx) keep their        *)
(* 0-based values and a sequence is read at position i + 1.  In the        *)
(* translators a group or batch holds the 1-based positions of its items.  *)
(***************************************************************************)
EXTENDS Integers, Sequences, FiniteSets, TLC

VARIABLES
    \* ---- words_to_sentences ----
    words,               \* the input List[Word] (each a record with its text)
    max_chars,           \* the max_chars argument
    strip_punct,         \* VID2SUBS_STRIP_TRAILING_PUNCT == "1"
    seg_pc,              \* "loop" while the for loop runs, "done" after return
    idx,                 \* number of loop iterations completed (next idx)
    sentences,           \* the sentences list
    buffer_words,        \* buffered words, as 1-based positions in words
    buffer_text_parts,   \* the texts of the buffered words
    last_breakable_idx   \* 0-based position in the buffer, -1 if none

    ,
    \* ---- translate_subtitles (get_translation_engine(engine)) ----
    engine,              \* "google" | "m2m100" | "llm", "off" when unused
    items,               \* the items argument: records [index, text]
    text_limit,          \* self.text_limit (Google, LLM)
    translate_text_limit,\* self.translate_text_limit (LLM)
    max_workers,         \* self.max_workers
    tr_pc,               \* position of the calling thread
    groups,              \* Google groups / LLM batches, in submission order
    responses,           \* per group/batch: the backend's answer, "none"
                         \* while the unit has not finished
    merged,              \* units whose result the caller has written back
    translations,        \* Google / M2M100: the translations list
    translations_by_index, \* LLM: the index -> text map
    writes,              \* per result slot: n, the number of writes to it,
                         \* and by, the units that wrote it
    calls,               \* the kinds of the backend calls issued, in order
    plan_defects,        \* LLM: kinds of the planning calls whose answer was
                         \* a JSON document without translation_prompt
    returned,            \* the list returned to the caller, "none" before
    item_translation     \* pipeline: item.translation per item, "none" unset

    ,
    \* ---- subtitles/: sentences_to_subtitle_items and the two serializers ----
    sub_pc,              \* "build", "built", "srt", "ass", "done"; "off" unused
    sub_sentences,       \* the sentences argument: records [text, start, end]
    build_idx,           \* sentences the builder's loop has been through
    sub_items,           \* the SubtitleItem list
    bilingual,           \* rendering flags, the same for both serializers
    translated_only,
    render_idx,          \* items the running serializer's loop has been through
    lines,               \* subtitle_items_to_srt: lines
    srt_text,            \* the string subtitle_items_to_srt returns
    event_lines,         \* subtitle_items_to_ass: event_lines
    ass_text             \* the string subtitle_items_to_ass returns

    ,
    \* ---- M2M100Translator: the language codes of a translate_subtitles call ----
    source_lang,         \* the source_lang argument
    target_lang,         \* the target_lang argument
    tokenizer_src_lang,  \* tokenizer.src_lang, "none" until it is assigned
    forced_lang          \* the code given to tokenizer.get_lang_id, "none"
                         \* until it is called

    ,
    \* ---- Vid2SubsPipeline.run_to_subtitles ----
    pipe_pc,             \* the stage the run is at; "failed" after an
                         \* exception, "done" after return, "off" unused
    config,              \* self.config
    files,               \* the output files: per path its content
    stage_log,           \* the stages whose work has been started, in order
    failure,             \* the exception that ended the run, "none" if none
    p_items,             \* items
    p_translation,       \* item.translation per item
    p_translations,      \* the local list translations
    last_lang,           \* last_lang of the detection loop
    detected_log,        \* what detect_lang_code returned, per item
    assigned_lang,       \* src_lang per item
    lang_to_indices,     \* the dict, as [lang, indices] in insertion order
    group_idx,           \* language groups already translated
    backend_calls,       \* the translate_subtitles calls that returned
    assign_count         \* per item, the assignments to item.translation

seg_vars == <<words, max_chars, strip_punct, seg_pc, idx, sentences,
              buffer_words, buffer_text_parts, last_breakable_idx>>

tr_vars == <<engine, items, text_limit, translate_text_limit, max_workers,
             tr_pc, groups, responses, merged, translations,
             translations_by_index, writes, calls, plan_defects, returned,
             item_translation>>

sub_vars == <<sub_pc, sub_sentences, build_idx, sub_items, bilingual,
              translated_only, render_idx, lines, srt_text, event_lines,
              ass_text>>

lang_vars == <<source_lang, target_lang, tokenizer_src_lang, forced_lang>>

pipe_vars == <<pipe_pc, config, files, stage_log, failure, p_items,
               p_translation, p_translations, last_lang, detected_log,
               assigned_lang, lang_to_indices, group_idx, backend_calls,
               assign_count>>

vars == <<seg_vars, tr_vars, sub_vars, lang_vars, pipe_vars>>

----------------------------------------------------------------------------
(* Bounds *)

MaxWords == 4
MaxChars == 4
MaxItems == 3
MaxLimit == 2
MaxWorkers == 2
MaxSentences == 2

MaxPipeItems == 3

----------------------------------------------------------------------------
(* Characters and strings *)

SENTENCE_END_PUNCTUATION == {".", "!", "?"}
BREAK_PUNCTUATION == {".", "!", "?", ",", ";", ":"}
NON_BREAK_PUNCTUATION == {"\"", "'", "(", ")"}

IsSpace(c) == c \in {" ", "\n"}

RECURSIVE RStrip(_)
RStrip(s) ==
    IF s = <<>> THEN s
    ELSE IF IsSpace(s[Len(s)]) THEN RStrip(SubSeq(s, 1, Len(s) - 1))
    ELSE s

RECURSIVE LStrip(_)
LStrip(s) ==
    IF s = <<>> THEN s
    ELSE IF IsSpace(s[1]) THEN LStrip(Tail(s))
    ELSE s

\* str.strip()
Strip(s) == LStrip(RStrip(s))

\* sep.join(parts)
RECURSIVE Join(_, _)
Join(sep, parts) ==
    IF parts = <<>> THEN <<>>
    ELSE IF Len(parts) = 1 THEN parts[1]
    ELSE parts[1] \o sep \o Join(sep, Tail(parts))

JoinSpace(parts) == Join(<<" ">>, parts)

Range(f) == {f[i] : i \in DOMAIN f}

----------------------------------------------------------------------------
(* sentence_segmenter.py *)

\* the while loop of _strip_trailing_punct_if_enabled, on a right-stripped t
RECURSIVE StripPunctLoop(_)
StripPunctLoop(t) ==
    IF t # <<>> /\ t[Len(t)] \in BREAK_PUNCTUATION
                /\ t[Len(t)] \notin NON_BREAK_PUNCTUATION
    THEN StripPunctLoop(RStrip(SubSeq(t, 1, Len(t) - 1)))
    ELSE t

\* _strip_trailing_punct_if_enabled removing one trailing character at most
strip_trailing_punct_if_enabled_Once(text, enabled) ==
    IF text = <<>> THEN text
    ELSE IF ~enabled THEN text
    ELSE LET t == RStrip(text) IN
         IF t # <<>> /\ t[Len(t)] \in BREAK_PUNCTUATION
         THEN RStrip(SubSeq(t, 1, Len(t) - 1))
         ELSE t

strip_trailing_punct_if_enabled(text, enabled) ==
    IF text = <<>> THEN text
    ELSE IF ~enabled THEN text
    ELSE StripPunctLoop(RStrip(text))

is_sentence_end_token(token) ==
    LET stripped == Strip(token) IN
    IF stripped = <<>> THEN FALSE
    ELSE stripped[Len(stripped)] \in SENTENCE_END_PUNCTUATION

\* the test both _update_last_breakable_index and the loop of _flush_up_to
\* apply to one token
IsBreakableToken(token) ==
    LET stripped == Strip(token) IN
    IF stripped = <<>> THEN FALSE
    ELSE /\ stripped[Len(stripped)] \in BREAK_PUNCTUATION
         /\ stripped[Len(stripped)] \notin NON_BREAK_PUNCTUATION

\* _update_last_breakable_index that records nothing
update_last_breakable_index_Never(b) == b

\* _update_last_breakable_index: b is the record of the three buffers
update_last_breakable_index(b) ==
    IF b.buffer_words = <<>> THEN b
    ELSE IF IsBreakableToken(b.buffer_text_parts[Len(b.buffer_text_parts)])
         THEN [b EXCEPT !.last_breakable_idx = Len(b.buffer_words) - 1]
         ELSE b

\* the recomputation loop at the end of _flush_up_to
RecomputeLastBreakable(parts) ==
    LET hits == {i \in 1..Len(parts) : IsBreakableToken(parts[i])} IN
    IF hits = {} THEN -1
    ELSE (CHOOSE i \in hits : \A j \in hits : j <= i) - 1

\* the text a flush of the given token texts would give the Sentence
SentenceText(texts, enabled) ==
    strip_trailing_punct_if_enabled(Strip(JoinSpace(texts)), enabled)

\* the span taken from the slice's first word alone
SentenceSpan_FirstWord(words_slice) ==
    [start |-> words[words_slice[1]].start,
     end |-> words[words_slice[1]].end]

\* sent_start = words_slice[0].start, sent_end = words_slice[-1].end; the
\* buffer holds the words as positions in the input list
SentenceSpan(words_slice) ==
    [start |-> words[words_slice[1]].start,
     end |-> words[words_slice[Len(words_slice)]].end]

\* flush_up_to keeping the cut word in the buffer as well (slice off by one)
flush_up_to_KeepCut(b, index, enabled) ==
    IF b.buffer_words = <<>> THEN b
    ELSE
      LET n == Len(b.buffer_words)
          i == IF index < 0 \/ index >= n THEN n - 1 ELSE index
          text == SentenceText(SubSeq(b.buffer_text_parts, 1, i + 1), enabled)
          rest_parts == SubSeq(b.buffer_text_parts, i + 1, n)
      IN [sentences |->
              IF text # <<>>
              THEN Append(b.sentences,
                          [text |-> text,
                           start |-> words[b.buffer_words[1]].start,
                           end |-> words[b.buffer_words[i + 1]].end,
                           words |-> SubSeq(b.buffer_words, 1, i + 1)])
              ELSE b.sentences,
          buffer_words |-> SubSeq(b.buffer_words, i + 1, n),
          buffer_text_parts |-> rest_parts,
          last_breakable_idx |-> RecomputeLastBreakable(rest_parts)]

\* flush_up_to emitting only texts of more than one character
flush_up_to_DropShort(b, index, enabled) ==
    IF b.buffer_words = <<>> THEN b
    ELSE
      LET n == Len(b.buffer_words)
          i == IF index < 0 \/ index >= n THEN n - 1 ELSE index
          words_slice == SubSeq(b.buffer_words, 1, i + 1)
          texts_slice == SubSeq(b.buffer_text_parts, 1, i + 1)
          text == SentenceText(texts_slice, enabled)
          rest_words == SubSeq(b.buffer_words, i + 2, n)
          rest_parts == SubSeq(b.buffer_text_parts, i + 2, n)
          span == SentenceSpan(words_slice)
      IN [sentences |->
              IF Len(text) > 1
              THEN Append(b.sentences,
                          [text |-> text, start |-> span.start,
                           end |-> span.end, words |-> words_slice])
              ELSE b.sentences,
          buffer_words |-> rest_words,
          buffer_text_parts |-> rest_parts,
          last_breakable_idx |-> RecomputeLastBreakable(rest_parts)]

\* _flush_up_to(index) on the record b = [sentences, buffer_words,
\* buffer_text_parts, last_breakable_idx]
flush_up_to(b, index, enabled) ==
    IF b.buffer_words = <<>> THEN b
    ELSE
      LET n == Len(b.buffer_words)
          i == IF index < 0 \/ index >= n THEN n - 1 ELSE index
          words_slice == SubSeq(b.buffer_words, 1, i + 1)
          texts_slice == SubSeq(b.buffer_text_parts, 1, i + 1)
          text == SentenceText(texts_slice, enabled)
          rest_words == SubSeq(b.buffer_words, i + 2, n)
          rest_parts == SubSeq(b.buffer_text_parts, i + 2, n)
          span == SentenceSpan(words_slice)
      IN [sentences |->
              IF text # <<>>
              THEN Append(b.sentences,
                          [text |-> text, start |-> span.start,
                           end |-> span.end, words |-> words_slice])
              ELSE b.sentences,
          buffer_words |-> rest_words,
          buffer_text_parts |-> rest_parts,
          last_breakable_idx |-> RecomputeLastBreakable(rest_parts)]

\* BreakIndex comparing the length against max_chars + 1
BreakIndex_Late(b, w, mc) ==
    IF is_sentence_end_token(w.text) THEN Len(b.buffer_words) - 1
    ELSE IF Len(JoinSpace(b.buffer_text_parts)) > mc + 1
         THEN IF b.last_breakable_idx >= 0 THEN b.last_breakable_idx
              ELSE Len(b.buffer_words) - 1
         ELSE -2

\* BreakIndex without the sentence-end branch
BreakIndex_NoTerminal(b, w, mc) ==
    IF Len(JoinSpace(b.buffer_text_parts)) > mc
    THEN IF b.last_breakable_idx >= 0 THEN b.last_breakable_idx
         ELSE Len(b.buffer_words) - 1
    ELSE -2

\* BreakIndex cutting before a sentence-end word instead of after it
BreakIndex_BeforeTerminal(b, w, mc) ==
    IF is_sentence_end_token(w.text) THEN Len(b.buffer_words) - 2
    ELSE IF Len(JoinSpace(b.buffer_text_parts)) > mc
         THEN IF b.last_breakable_idx >= 0 THEN b.last_breakable_idx
              ELSE Len(b.buffer_words) - 1
         ELSE -2

\* BreakIndex cutting an overlong buffer at the current word always
BreakIndex_Whole(b, w, mc) ==
    IF is_sentence_end_token(w.text) THEN Len(b.buffer_words) - 1
    ELSE IF Len(JoinSpace(b.buffer_text_parts)) > mc
         THEN Len(b.buffer_words) - 1
         ELSE -2

\* break_index of one loop iteration, -2 standing for None; b is the buffer
\* record after the append and the update of last_breakable_idx
BreakIndex(b, w, mc) ==
    IF is_sentence_end_token(w.text) THEN Len(b.buffer_words) - 1
    ELSE IF Len(JoinSpace(b.buffer_text_parts)) > mc
         THEN IF b.last_breakable_idx >= 0 THEN b.last_breakable_idx
              ELSE Len(b.buffer_words) - 1
         ELSE -2

\* the loop iteration without the flush after the last word
LoopBody_NoFinalFlush(b, i, ws, mc, enabled) ==
    LET w == ws[i + 1]
        b1 == update_last_breakable_index(
                 [b EXCEPT !.buffer_words = Append(@, i + 1),
                           !.buffer_text_parts = Append(@, w.text)])
        is_last_word == (i = Len(ws) - 1)
        break_index == BreakIndex(b1, w, mc)
        b2 == IF break_index # -2 THEN flush_up_to(b1, break_index, enabled)
              ELSE b1
    IN b2

\* one iteration of the for loop of words_to_sentences
LoopBody(b, i, ws, mc, enabled) ==
    LET w == ws[i + 1]
        b1 == update_last_breakable_index(
                 [b EXCEPT !.buffer_words = Append(@, i + 1),
                           !.buffer_text_parts = Append(@, w.text)])
        is_last_word == (i = Len(ws) - 1)
        break_index == BreakIndex(b1, w, mc)
        b2 == IF break_index # -2 THEN flush_up_to(b1, break_index, enabled)
              ELSE b1
    IN IF is_last_word /\ b2.buffer_words # <<>>
       THEN flush_up_to(b2, Len(b2.buffer_words) - 1, enabled)
       ELSE b2

SegState == [sentences |-> sentences, buffer_words |-> buffer_words,
             buffer_text_parts |-> buffer_text_parts,
             last_breakable_idx |-> last_breakable_idx]

\* token texts the transcriber may produce
WordTexts == { <<"a">>, <<"a", "a", "a">>, <<"a", ",">>, <<"a", ".">>,
               <<".", " ">>, <<" ">>, <<"a", "\"">> }

\* the timestamps of a stream: "spread", word i runs from 10 * i to
\* 10 * i + 5; "none", every word carries the start == end == 0 of a
\* transcriber without timestamps; "nested", the words start together and
\* end one before the other
Timings == {"spread", "none", "nested"}

WordAt(texts, timing, i) ==
    CASE timing = "none" -> [text |-> texts[i], start |-> 0, end |-> 0]
      [] timing = "nested" -> [text |-> texts[i], start |-> 10, end |-> 100 - i]
      [] OTHER -> [text |-> texts[i], start |-> 10 * i, end |-> 10 * i + 5]

WordListsOf(textset, timings) ==
    UNION {{[i \in 1..n |-> WordAt(texts, timing, i)] :
               texts \in [1..n -> textset], timing \in timings} :
           n \in 0..MaxWords}

WordLists == WordListsOf(WordTexts, {"spread"})

\* a smaller vocabulary under every timing
TimedWordTexts == { <<"a">>, <<"a", ",">>, <<"a", ".">>, <<" ">> }

TimedWordLists == WordListsOf(TimedWordTexts, Timings)

SegIdle ==
    /\ words = <<>> /\ max_chars = 0 /\ strip_punct = FALSE
    /\ seg_pc = "off" /\ idx = 0 /\ sentences = <<>>
    /\ buffer_words = <<>> /\ buffer_text_parts = <<>>
    /\ last_breakable_idx = -1

\* the state on entry of words_to_sentences(words, max_chars=...)
SegEntry ==
    /\ max_chars \in 1..MaxChars
    /\ strip_punct \in BOOLEAN
    /\ seg_pc = "start"
    /\ idx = 0
    /\ sentences = <<>>
    /\ buffer_words = <<>>
    /\ buffer_text_parts = <<>>
    /\ last_breakable_idx = -1

SegInit == words \in WordLists /\ SegEntry

SegTimedInit == words \in TimedWordLists /\ SegEntry

\* "if not words: return []", else the locals are set up and the loop begins
SegEnter ==
    /\ seg_pc = "start"
    /\ seg_pc' = IF words = <<>> THEN "done" ELSE "loop"
    /\ UNCHANGED <<words, max_chars, strip_punct, idx, sentences,
                   buffer_words, buffer_text_parts, last_breakable_idx>>
    /\ UNCHANGED <<tr_vars, sub_vars, lang_vars, pipe_vars>>

SegStep ==
    /\ seg_pc = "loop"
    /\ idx < Len(words)
    /\ LET b == LoopBody(SegState, idx, words, max_chars, strip_punct) IN
         /\ sentences' = b.sentences
         /\ buffer_words' = b.buffer_words
         /\ buffer_text_parts' = b.buffer_text_parts
         /\ last_breakable_idx' = b.last_breakable_idx
    /\ idx' = idx + 1
    /\ seg_pc' = IF idx + 1 = Len(words) THEN "done" ELSE "loop"
    /\ UNCHANGED <<words, max_chars, strip_punct>>
    /\ UNCHANGED <<tr_vars, sub_vars, lang_vars, pipe_vars>>

SegNext == SegEnter \/ SegStep

----------------------------------------------------------------------------
(* translate/: helpers shared by the backends *)

None == "none"

Min(a, b) == IF a <= b THEN a ELSE b

\* str.split("\n")
RECURSIVE SplitLines(_)
SplitLines(s) ==
    LET nl == {i \in 1..Len(s) : s[i] = "\n"} IN
    IF nl = {} THEN <<s>>
    ELSE LET k == CHOOSE i \in nl : \A j \in nl : i <= j IN
         <<SubSeq(s, 1, k - 1)>> \o SplitLines(SubSeq(s, k + 1, Len(s)))

\* what a translation service makes of a text: letters change, layout stays
TrChar(c) == CASE c = "a" -> "A" [] c = "b" -> "B" [] OTHER -> c

Translate(s) == [i \in 1..Len(s) |-> TrChar(s[i])]

TextsOf_items(its) == [i \in 1..Len(its) |-> its[i].text]

\* the grouping loop: a new group starts when the current one is non-empty
\* and adding the next text would pass the limit
RECURSIVE GroupLoop(_, _, _, _, _, _)
GroupLoop(texts, limit, i, gs, current_group, current_len) ==
    IF i > Len(texts)
    THEN IF current_group # <<>> THEN Append(gs, current_group) ELSE gs
    ELSE LET t_len == Len(texts[i])
             cut == current_group # <<>> /\ current_len + t_len > limit
         IN GroupLoop(texts, limit, i + 1,
                      IF cut THEN Append(gs, current_group) ELSE gs,
                      IF cut THEN <<i>> ELSE Append(current_group, i),
                      IF cut THEN t_len ELSE current_len + t_len)

\* the grouping loop without the "current_group and" guard
google_groups_NoGuard(its, limit) ==
    LET texts == TextsOf_items(its)
        F[i \in 0..Len(texts)] ==
            IF i = 0 THEN [gs |-> <<>>, cur |-> <<>>, len |-> 0]
            ELSE LET p == F[i - 1]
                     cut == p.len + Len(texts[i]) > limit
                 IN [gs |-> IF cut THEN Append(p.gs, p.cur) ELSE p.gs,
                     cur |-> IF cut THEN <<i>> ELSE Append(p.cur, i),
                     len |-> IF cut THEN Len(texts[i])
                             ELSE p.len + Len(texts[i])]
        e == F[Len(texts)]
    IN IF e.cur # <<>> THEN Append(e.gs, e.cur) ELSE e.gs

\* GoogleTranslator.translate_subtitles, lines 120-135
google_groups(its, limit) == GroupLoop(TextsOf_items(its), limit, 1, <<>>, <<>>, 0)

\* LLMTranslator._summarize_chunks, lines 464-476
llm_chunks(its, limit) == GroupLoop(TextsOf_items(its), limit, 1, <<>>, <<>>, 0)

\* LLMTranslator._translate_in_batches, lines 617-629
llm_batches(its, limit) == GroupLoop(TextsOf_items(its), limit, 1, <<>>, <<>>, 0)

\* the write-back pairing idxs with trans from the other end
WriteBack_Reversed(tr, idxs, trans) ==
    LET n == Min(Len(idxs), Len(trans)) IN
    [i \in 1..Len(tr) |->
        IF \E k \in 1..n : idxs[k] = i
        THEN trans[n + 1 - (CHOOSE k \in 1..n : idxs[k] = i)]
        ELSE tr[i]]

\* for i, text in zip(idxs, trans): translations[i] = text
WriteBack(tr, idxs, trans) ==
    LET n == Min(Len(idxs), Len(trans)) IN
    [i \in 1..Len(tr) |->
        IF \E k \in 1..n : idxs[k] = i
        THEN trans[CHOOSE k \in 1..n :
                      idxs[k] = i /\ \A j \in 1..n : idxs[j] = i => j <= k]
        ELSE tr[i]]

\* the write log after a unit u wrote the given slots
Logged(w, slots, u) ==
    [s \in DOMAIN w |->
        IF s \in slots THEN [n |-> w[s].n + 1, by |-> w[s].by \cup {u}]
        ELSE w[s]]

Unwritten == [n |-> 0, by |-> {}]

\* worker_count = min(self.max_workers, len(groups))
WorkerCount == Min(max_workers, Len(groups))

Units == 1..Len(groups)

\* a pool of WorkerCount threads takes the submitted units in order: u has
\* been taken once fewer than WorkerCount earlier units are unfinished
Taken(u) ==
    Cardinality({v \in 1..(u - 1) : responses[v] = None}) < WorkerCount

----------------------------------------------------------------------------
(* translate/google_translator.py *)

GoogleOutcomes == {"ok", "error", "extra"}

\* do_request: the HTTP exchange; "error" is a failed request or a bad
\* status, "extra" an answer with one line more than was sent
do_request(text, outcome) ==
    CASE outcome = "error" -> [raised |-> TRUE, value |-> <<>>]
      [] outcome = "ok" ->
            [raised |-> FALSE, value |-> Strip(Translate(text))]
      [] outcome = "extra" ->
            [raised |-> FALSE,
             value |-> Strip(Translate(text) \o <<"\n", "X">>)]

\* GoogleTranslator._translate_text
translate_text(text, outcome) ==
    IF Strip(text) = <<>> THEN [raised |-> FALSE, value |-> <<>>]
    ELSE do_request(text, outcome)

GroupTexts(its, group_indices) ==
    [k \in 1..Len(group_indices) |-> its[group_indices[k]].text]

\* process_group returning the lines unstripped and whatever their number
process_group_NoCheck(its, group_indices, outcome) ==
    LET texts == GroupTexts(its, group_indices)
        r == translate_text(Join(<<"\n">>, texts), outcome)
    IN IF r.raised THEN texts ELSE SplitLines(r.value)

\* process_group: the second component of its result (the first is
\* group_indices itself)
process_group(its, group_indices, outcome) ==
    LET texts == GroupTexts(its, group_indices)
        joined == Join(<<"\n">>, texts)
        r == translate_text(joined, outcome)
        parts == SplitLines(r.value)
    IN IF r.raised THEN texts
       ELSE IF Len(parts) # Len(group_indices) THEN texts
       ELSE [k \in 1..Len(parts) |-> Strip(parts[k])]

\* the HTTP call of a group, logged unless _translate_text returns early
GoogleCall(u) ==
    IF Strip(Join(<<"\n">>, GroupTexts(items, groups[u]))) = <<>>
    THEN calls
    ELSE Append(calls, "google")

GoogleStart ==
    /\ engine = "google" /\ tr_pc = "start"
    /\ translations' = [i \in 1..Len(items) |-> <<>>]
    /\ writes' = [i \in 1..Len(items) |-> Unwritten]
    /\ IF items = <<>>
       THEN /\ returned' = <<>>
            /\ tr_pc' = "returned"
            /\ UNCHANGED <<groups, responses>>
       ELSE LET gs == google_groups(items, text_limit) IN
            /\ groups' = gs
            /\ responses' = [u \in 1..Len(gs) |-> None]
            /\ tr_pc' = IF Min(max_workers, Len(gs)) <= 1 THEN "seq" ELSE "pool"
            /\ UNCHANGED returned
    /\ UNCHANGED <<plan_defects, engine, items, text_limit, translate_text_limit,
                   max_workers, merged, translations_by_index, calls,
                   item_translation>>
    /\ UNCHANGED <<seg_vars, sub_vars, lang_vars, pipe_vars>>

\* the merge of one group's result into translations
GoogleWrite(u, o) ==
    /\ translations' = WriteBack(translations, groups[u],
                                 process_group(items, groups[u], o))
    /\ writes' = Logged(writes, Range(groups[u]), u)
    /\ merged' = merged \cup {u}

\* serial mode: one iteration of "for group in groups"
GoogleSeqStep ==
    /\ engine = "google" /\ tr_pc = "seq"
    /\ \E u \in Units, o \in GoogleOutcomes :
          /\ u = Cardinality(merged) + 1
          /\ responses' = [responses EXCEPT ![u] = o]
          /\ calls' = GoogleCall(u)
          /\ GoogleWrite(u, o)
    /\ UNCHANGED <<plan_defects, engine, items, text_limit, translate_text_limit,
                   max_workers, tr_pc, groups, translations_by_index,
                   returned, item_translation>>
    /\ UNCHANGED <<seg_vars, sub_vars, lang_vars, pipe_vars>>

\* pool mode: a worker thread runs process_group for a unit to its end
GoogleFinish ==
    /\ engine = "google" /\ tr_pc = "pool"
    /\ \E u \in Units, o \in GoogleOutcomes :
          /\ responses[u] = None
          /\ Taken(u)
          /\ responses' = [responses EXCEPT ![u] = o]
          /\ calls' = GoogleCall(u)
    /\ UNCHANGED <<plan_defects, engine, items, text_limit, translate_text_limit,
                   max_workers, tr_pc, groups, merged, translations,
                   translations_by_index, writes, returned, item_translation>>
    /\ UNCHANGED <<seg_vars, sub_vars, lang_vars, pipe_vars>>

\* pool mode: one iteration of "for future in as_completed(...)"
GoogleMerge ==
    /\ engine = "google" /\ tr_pc = "pool"
    /\ \E u \in Units :
          /\ responses[u] # None
          /\ u \notin merged
          /\ GoogleWrite(u, responses[u])
    /\ UNCHANGED <<plan_defects, engine, items, text_limit, translate_text_limit,
                   max_workers, tr_pc, groups, responses,
                   translations_by_index, calls, returned, item_translation>>
    /\ UNCHANGED <<seg_vars, sub_vars, lang_vars, pipe_vars>>

GoogleReturn ==
    /\ engine = "google" /\ tr_pc \in {"seq", "pool"}
    /\ merged = Units
    /\ returned' = translations
    /\ tr_pc' = "returned"
    /\ UNCHANGED <<plan_defects, engine, items, text_limit, translate_text_limit,
                   max_workers, groups, responses, merged, translations,
                   translations_by_index, writes, calls, item_translation>>
    /\ UNCHANGED <<seg_vars, sub_vars, lang_vars, pipe_vars>>

GoogleNext ==
    GoogleStart \/ GoogleSeqStep \/ GoogleFinish \/ GoogleMerge \/ GoogleReturn

----------------------------------------------------------------------------
(* translate/llm_translator.py *)

\* what one _call_chat can meet: "ok" a well-formed answer; "fail" an HTTP
\* error, a body or a content that is not JSON, or an envelope without
\* choices / content; "nofield" a JSON document without the field the caller
\* reads (translation_prompt of a plan, translations of a batch answer; a
\* chunk summary is only passed on to the global plan); "stray" (batches
\* only) a translations array with other indices than the batch's
PlanOutcomes == {"ok", "fail", "nofield"}

LLMOutcomes == {"ok", "fail", "nofield", "stray"}

\* self._control_chars_pattern: [\u0000-\u001F\u007F]
IsControl(c) == c \in {"\n", "\t"}

StripControl(s) == SelectSeq(s, LAMBDA c : ~IsControl(c))

\* a call that never reports its failure
Raises_Never(outcome) == FALSE

\* _call_chat leaves with an exception (raise_for_status, a RuntimeError for
\* a body or content that is not the expected JSON)
Raises(outcome) == outcome = "fail"

\* _total_text_length
total_text_length(its) ==
    LET F[i \in 0..Len(its)] ==
            IF i = 0 THEN 0 ELSE F[i - 1] + Len(its[i].text)
    IN F[Len(its)]

\* the planning test with a strict comparison
IsShortText_Strict(its, limit) == total_text_length(its) < limit

\* translate_subtitles, line 716: total_len <= self.text_limit
IsShortText(its, limit) == total_text_length(its) <= limit

\* result.get("translations", []) or []: "ok" lists every item of the batch
\* under its index; "nofield" has no translations field; "stray" leaves out
\* the batch's last item and adds an entry for every index outside the batch
BatchEntries(its, batch, outcome) ==
    LET own == [k \in 1..Len(batch) |->
                   [index |-> its[batch[k]].index,
                    translated_text |-> Translate(its[batch[k]].text)]]
        others == SelectSeq([i \in 1..Len(its) |-> i],
                            LAMBDA i : i \notin Range(batch))
        foreign == [k \in 1..Len(others) |->
                      [index |-> its[others[k]].index,
                       translated_text |-> <<"?", "\t">>]]
    IN CASE outcome = "ok" -> own
         [] outcome = "nofield" -> <<>>
         [] OTHER -> SubSeq(own, 1, Len(own) - 1) \o foreign

\* d[k] = v on a dict
DictSet(d, k, v) == [x \in DOMAIN d \cup {k} |-> IF x = k THEN v ELSE d[x]]

\* d.update(e)
DictUpdate(d, e) ==
    [x \in DOMAIN d \cup DOMAIN e |-> IF x \in DOMAIN e THEN e[x] ELSE d[x]]

\* d.get(k, default)
DictGet(d, k, default) == IF k \in DOMAIN d THEN d[k] ELSE default

\* process_batch keeping only the entries of the batch's own indices
process_batch_OwnOnly(its, batch, outcome) ==
    LET entries == BatchEntries(its, batch, outcome)
        own == {its[batch[k]].index : k \in 1..Len(batch)}
        F[n \in 0..Len(entries)] ==
            IF n = 0 THEN <<>>
            ELSE IF entries[n].index \in own
                 THEN DictSet(F[n - 1], entries[n].index,
                              StripControl(entries[n].translated_text))
                 ELSE F[n - 1]
    IN F[Len(entries)]

\* process_batch after a successful _call_chat: local_map
process_batch(its, batch, outcome) ==
    LET entries == BatchEntries(its, batch, outcome)
        F[n \in 0..Len(entries)] ==
            IF n = 0 THEN <<>>
            ELSE DictSet(F[n - 1], entries[n].index,
                         StripControl(entries[n].translated_text))
    IN F[Len(entries)]

\* the list comprehension that assembles the result by the wrong key (the
\* position in the list of what the map holds)
AssembleByIndex_Packed(its, d) ==
    LET have == SelectSeq([i \in 1..Len(its) |-> its[i].index],
                          LAMBDA x : x \in DOMAIN d)
    IN [i \in 1..Len(its) |-> IF i <= Len(have) THEN d[have[i]] ELSE <<>>]

\* [translations_by_index.get(item.index, "") for item in items]
AssembleByIndex(its, d) ==
    [i \in 1..Len(its) |-> DictGet(d, its[i].index, <<>>)]

NumCalls(kind) == Cardinality({n \in 1..Len(calls) : calls[n] = kind})

\* _translate_in_batches up to the choice between the loop and the pool
EnterBatches ==
    LET bs == llm_batches(items, translate_text_limit) IN
    /\ groups' = bs
    /\ responses' = [u \in 1..Len(bs) |-> None]
    /\ tr_pc' = IF Min(max_workers, Len(bs)) <= 1 THEN "seq" ELSE "pool"

LLMStart ==
    /\ engine = "llm" /\ tr_pc = "start"
    /\ writes' = [i \in {items[k].index : k \in 1..Len(items)} |-> Unwritten]
    /\ IF items = <<>>
       THEN /\ returned' = <<>>
            /\ tr_pc' = "returned"
       ELSE /\ tr_pc' = IF IsShortText(items, text_limit)
                        THEN "plan_short" ELSE "summarize"
            /\ UNCHANGED returned
    /\ UNCHANGED <<plan_defects, engine, items, text_limit, translate_text_limit,
                   max_workers, groups, responses, merged, translations,
                   translations_by_index, calls, item_translation>>
    /\ UNCHANGED <<seg_vars, sub_vars, lang_vars, pipe_vars>>

\* result.get("translation_prompt", "") / result.get("video_summary", ""):
\* an answer without the field is read as the empty string
Defects(o, kind) ==
    IF o = "nofield" THEN plan_defects \cup {kind} ELSE plan_defects

\* _plan_for_short_text: one _call_chat
LLMPlanShort ==
    /\ engine = "llm" /\ tr_pc = "plan_short"
    /\ calls' = Append(calls, "plan_short")
    /\ \E o \in PlanOutcomes :
          /\ plan_defects' = Defects(o, "plan_short")
          /\ IF Raises(o)
             THEN tr_pc' = "raised" /\ UNCHANGED <<groups, responses>>
             ELSE EnterBatches
    /\ UNCHANGED <<engine, items, text_limit, translate_text_limit,
                   max_workers, merged, translations, translations_by_index,
                   writes, returned, item_translation>>
    /\ UNCHANGED <<seg_vars, sub_vars, lang_vars, pipe_vars>>

\* _summarize_chunks: one iteration of "for idx, chunk in enumerate(chunks)"
LLMChunkSummary ==
    /\ engine = "llm" /\ tr_pc = "summarize"
    /\ LET chunks == llm_chunks(items, text_limit)
           n == NumCalls("chunk_summary") + 1
       IN /\ calls' = Append(calls, "chunk_summary")
          /\ \E o \in {"ok", "fail"} :
                tr_pc' = IF Raises(o) THEN "raised"
                         ELSE IF n = Len(chunks) THEN "global_plan"
                         ELSE "summarize"
    /\ UNCHANGED <<plan_defects, engine, items, text_limit,
                   translate_text_limit, max_workers, groups, responses,
                   merged, translations, translations_by_index, writes,
                   returned, item_translation>>
    /\ UNCHANGED <<seg_vars, sub_vars, lang_vars, pipe_vars>>

\* _plan_from_summaries: one _call_chat
LLMGlobalPlan ==
    /\ engine = "llm" /\ tr_pc = "global_plan"
    /\ calls' = Append(calls, "global_plan")
    /\ \E o \in PlanOutcomes :
          /\ plan_defects' = Defects(o, "global_plan")
          /\ IF Raises(o)
             THEN tr_pc' = "raised" /\ UNCHANGED <<groups, responses>>
             ELSE EnterBatches
    /\ UNCHANGED <<engine, items, text_limit, translate_text_limit,
                   max_workers, merged, translations, translations_by_index,
                   writes, returned, item_translation>>
    /\ UNCHANGED <<seg_vars, sub_vars, lang_vars, pipe_vars>>

\* translations_by_index.update(batch_map)
LLMUpdate(u, o) ==
    LET batch_map == process_batch(items, groups[u], o) IN
    /\ translations_by_index' = DictUpdate(translations_by_index, batch_map)
    /\ writes' = Logged(writes, DOMAIN batch_map, u)
    /\ merged' = merged \cup {u}

\* serial mode: one iteration of "for batch in batches"; a failed call
\* leaves translate_subtitles with its exception
LLMSeqStep ==
    /\ engine = "llm" /\ tr_pc = "seq"
    /\ \E u \in Units, o \in LLMOutcomes :
          /\ u = Cardinality(merged) + 1
          /\ responses' = [responses EXCEPT ![u] = o]
          /\ calls' = Append(calls, "translate")
          /\ IF Raises(o)
             THEN /\ tr_pc' = "raised"
                  /\ UNCHANGED <<translations_by_index, writes, merged>>
             ELSE /\ LLMUpdate(u, o)
                  /\ UNCHANGED tr_pc
    /\ UNCHANGED <<plan_defects, engine, items, text_limit, translate_text_limit,
                   max_workers, groups, translations, returned,
                   item_translation>>
    /\ UNCHANGED <<seg_vars, sub_vars, lang_vars, pipe_vars>>

\* pool mode: a worker thread runs process_batch for a unit to its end; the
\* pool keeps running its units while the executor shuts down
LLMFinish ==
    /\ engine = "llm" /\ tr_pc \in {"pool", "aborting"}
    /\ \E u \in Units, o \in LLMOutcomes :
          /\ responses[u] = None
          /\ Taken(u)
          /\ responses' = [responses EXCEPT ![u] = o]
          /\ calls' = Append(calls, "translate")
    /\ UNCHANGED <<plan_defects, engine, items, text_limit, translate_text_limit,
                   max_workers, tr_pc, groups, merged, translations,
                   translations_by_index, writes, returned, item_translation>>
    /\ UNCHANGED <<seg_vars, sub_vars, lang_vars, pipe_vars>>

\* pool mode: one iteration of "for future in as_completed(...)";
\* future.result() re-raises the unit's exception as RuntimeError
LLMMerge ==
    /\ engine = "llm" /\ tr_pc = "pool"
    /\ \E u \in Units :
          /\ responses[u] # None
          /\ u \notin merged
          /\ IF Raises(responses[u])
             THEN /\ tr_pc' = "aborting"
                  /\ UNCHANGED <<translations_by_index, writes, merged>>
             ELSE /\ LLMUpdate(u, responses[u])
                  /\ UNCHANGED tr_pc
    /\ UNCHANGED <<plan_defects, engine, items, text_limit, translate_text_limit,
                   max_workers, groups, responses, translations, calls,
                   returned, item_translation>>
    /\ UNCHANGED <<seg_vars, sub_vars, lang_vars, pipe_vars>>

\* an executor that lets go of its units when an exception leaves the block
AllUnitsRun_NoWait == TRUE

\* leaving "with ThreadPoolExecutor(...) as executor" waits for the units:
\* __exit__ is shutdown(wait=True), which cancels nothing
AllUnitsRun == \A u \in Units : responses[u] # None

\* the RuntimeError of a failed batch leaves the with block once every
\* submitted unit has run
LLMAbort ==
    /\ engine = "llm" /\ tr_pc = "aborting"
    /\ AllUnitsRun
    /\ tr_pc' = "raised"
    /\ UNCHANGED <<plan_defects, engine, items, text_limit, translate_text_limit,
                   max_workers, groups, responses, merged, translations,
                   translations_by_index, writes, calls, returned,
                   item_translation>>
    /\ UNCHANGED <<seg_vars, sub_vars, lang_vars, pipe_vars>>

LLMReturn ==
    /\ engine = "llm" /\ tr_pc \in {"seq", "pool"}
    /\ merged = Units
    /\ returned' = AssembleByIndex(items, translations_by_index)
    /\ tr_pc' = "returned"
    /\ UNCHANGED <<plan_defects, engine, items, text_limit, translate_text_limit,
                   max_workers, groups, responses, merged, translations,
                   translations_by_index, writes, calls, item_translation>>
    /\ UNCHANGED <<seg_vars, sub_vars, lang_vars, pipe_vars>>

LLMNext ==
    \/ LLMStart \/ LLMPlanShort \/ LLMChunkSummary \/ LLMGlobalPlan
    \/ LLMSeqStep \/ LLMFinish \/ LLMMerge \/ LLMAbort \/ LLMReturn

----------------------------------------------------------------------------
(* translate/m2m_translator.py *)

M2MOutcomes == {"ok", "error", "fewer", "more"}

\* _translate_batch: the decoded outputs, stripped; "fewer" and "more" are a
\* model answering with one output less or one more than it was given
translate_batch(texts, outcome) ==
    LET outs == [i \in 1..Len(texts) |-> Strip(Translate(texts[i]))] IN
    CASE outcome = "ok" -> outs
      [] outcome = "fewer" -> SubSeq(outs, 1, Len(outs) - 1)
      [] outcome = "more" -> Append(outs, <<"X">>)

\* the reconciliation without the truncation branch
Reconcile_NoTruncate(outs, n) ==
    IF Len(outs) < n
    THEN outs \o [k \in 1..(n - Len(outs)) |-> <<>>]
    ELSE outs

\* lines 148-153: truncate or pad translations to len(items)
Reconcile(outs, n) ==
    IF Len(outs) # n
    THEN IF Len(outs) > n THEN SubSeq(outs, 1, n)
         ELSE outs \o [k \in 1..(n - Len(outs)) |-> <<>>]
    ELSE outs

\* str.upper and str.lower on the letters of the language codes
LetterPairs ==
    { <<"a", "A">>, <<"b", "B">>, <<"c", "C">>, <<"e", "E">>, <<"f", "F">>,
      <<"g", "G">>, <<"h", "H">>, <<"n", "N">>, <<"o", "O">>, <<"p", "P">>,
      <<"r", "R">>, <<"s", "S">>, <<"t", "T">>, <<"u", "U">>, <<"w", "W">>,
      <<"z", "Z">> }

UpperChar(c) ==
    IF \E p \in LetterPairs : p[1] = c
    THEN (CHOOSE p \in LetterPairs : p[1] = c)[2] ELSE c

LowerChar(c) ==
    IF \E p \in LetterPairs : p[2] = c
    THEN (CHOOSE p \in LetterPairs : p[2] = c)[1] ELSE c

Upper(s) == [i \in 1..Len(s) |-> UpperChar(s[i])]

Lower(s) == [i \in 1..Len(s) |-> LowerChar(s[i])]

\* the mapping dict of _normalize_lang, lines 67-76
LangMapping ==
    { << <<"e", "n", "-", "u", "s">>, <<"e", "n">> >>,
      << <<"e", "n", "-", "g", "b">>, <<"e", "n">> >>,
      << <<"e", "n">>, <<"e", "n">> >>,
      << <<"z", "h">>, <<"z", "h">> >>,
      << <<"z", "h", "-", "c", "n">>, <<"z", "h">> >>,
      << <<"z", "h", "-", "h", "a", "n", "s">>, <<"z", "h">> >>,
      << <<"z", "h", "-", "h", "a", "n", "t">>, <<"z", "h">> >>,
      << <<"z", "h", "-", "t", "w">>, <<"z", "h">> >> }

\* M2M100Translator._normalize_lang (is_source is not read)
normalize_lang(code) ==
    IF code = <<>> THEN <<"e", "n">>
    ELSE LET raw == Strip(code) IN
         IF raw = <<>> THEN <<"e", "n">>
         ELSE IF Upper(raw) \in { <<"E", "N">>, <<"E", "U">> }
         THEN <<"e", "n">>
         ELSE LET lowered == Lower(raw)
                  replaced == [i \in 1..Len(lowered) |->
                                  IF lowered[i] = "_" THEN "-" ELSE lowered[i]]
                  low == SubSeq(replaced, 1, Len(replaced))
              IN IF \E m \in LangMapping : m[1] = low
                 THEN (CHOOSE m \in LangMapping : m[1] = low)[2]
                 ELSE low

\* M2M100Translator.translate_subtitles; loaded is whether _ensure_model
\* succeeds
M2MTranslate ==
    /\ engine = "m2m100" /\ tr_pc = "start"
    /\ \E loaded \in BOOLEAN, o \in M2MOutcomes :
          IF ~loaded
          THEN /\ tr_pc' = "raised"
               /\ UNCHANGED <<calls, returned, translations,
                              tokenizer_src_lang, forced_lang>>
          ELSE IF items = <<>>
          THEN /\ returned' = <<>> /\ tr_pc' = "returned"
               /\ UNCHANGED <<calls, translations,
                              tokenizer_src_lang, forced_lang>>
          ELSE /\ calls' = Append(calls, "m2m_batch")
               /\ tokenizer_src_lang' = normalize_lang(source_lang)
               /\ forced_lang' = normalize_lang(target_lang)
               /\ IF o = "error"
                  THEN tr_pc' = "raised" /\ UNCHANGED <<returned, translations>>
                  ELSE LET t == Reconcile(
                                  translate_batch(TextsOf_items(items), o),
                                  Len(items))
                       IN /\ translations' = t
                          /\ returned' = t
                          /\ tr_pc' = "returned"
    /\ UNCHANGED <<plan_defects, engine, items, text_limit, translate_text_limit,
                   max_workers, groups, responses, merged,
                   translations_by_index, writes, item_translation>>
    /\ UNCHANGED <<seg_vars, sub_vars, source_lang, target_lang, pipe_vars>>

----------------------------------------------------------------------------
(* pipeline.py: what run_to_subtitles does with the returned list *)

\* for item, translated_text in zip(items, translations): ...
PipelineAssign ==
    /\ tr_pc = "returned"
    /\ item_translation' =
          [i \in 1..Len(items) |->
              IF i <= Len(returned) THEN returned[i] ELSE item_translation[i]]
    /\ tr_pc' = "assigned"
    /\ UNCHANGED <<plan_defects, engine, items, text_limit, translate_text_limit,
                   max_workers, groups, responses, merged, translations,
                   translations_by_index, writes, calls, returned>>
    /\ UNCHANGED <<seg_vars, sub_vars, lang_vars, pipe_vars>>

----------------------------------------------------------------------------
(* subtitles/srt_writer.py, subtitles/ass_writer.py                        *)
(* A time is a whole number of tenths of a millisecond; the fixed literals *)
(* of the ASS format are kept as one token each.                           *)

Digits == <<"0", "1", "2", "3", "4", "5", "6", "7", "8", "9">>

\* str(n) for n >= 0
RECURSIVE IntToStr(_)
IntToStr(n) ==
    IF n < 10 THEN <<Digits[n + 1]>>
    ELSE IntToStr(n \div 10) \o <<Digits[(n % 10) + 1]>>

\* the format specs 02d, 03d and d (width 1): zero padded to at least width
ZeroPad(n, width) ==
    LET d == IntToStr(n) IN
    IF Len(d) >= width THEN d
    ELSE [k \in 1..(width - Len(d)) |-> "0"] \o d

\* int(round(seconds * per_second)) for seconds >= 0: n is the time, unit
\* the number of tenths of a millisecond in one ms (10) or one cs (100);
\* the floating-point product of a time midway between two results can
\* come out on either side, tie_up says on which
RoundTo(n, unit, tie_up) ==
    LET q == n \div unit
        r == n % unit
    IN IF 2 * r < unit THEN q
       ELSE IF 2 * r > unit THEN q + 1
       ELSE IF tie_up THEN q + 1 ELSE q

\* the division chain without the "% 60" of the seconds
TimeFields_NoCarry(total, per_second) ==
    LET total_seconds == total \div per_second
        total_minutes == total_seconds \div 60
    IN [frac |-> total % per_second, s |-> total_seconds,
        m |-> total_minutes % 60, h |-> total_minutes \div 60]

\* the division chain shared by _format_timestamp and _format_ass_timestamp
TimeFields(total, per_second) ==
    LET total_seconds == total \div per_second
        total_minutes == total_seconds \div 60
    IN [frac |-> total % per_second, s |-> total_seconds % 60,
        m |-> total_minutes % 60, h |-> total_minutes \div 60]

\* _format_timestamp: HH:MM:SS,mmm
format_timestamp(seconds, tie_up) ==
    LET secs == IF seconds < 0 THEN 0 ELSE seconds
        f == TimeFields(RoundTo(secs, 10, tie_up), 1000)
    IN ZeroPad(f.h, 2) \o <<":">> \o ZeroPad(f.m, 2) \o <<":">>
          \o ZeroPad(f.s, 2) \o <<",">> \o ZeroPad(f.frac, 3)

\* _format_ass_timestamp: H:MM:SS.cc
format_ass_timestamp(seconds, tie_up) ==
    LET secs == IF seconds < 0 THEN 0 ELSE seconds
        f == TimeFields(RoundTo(secs, 100, tie_up), 100)
    IN ZeroPad(f.h, 1) \o <<":">> \o ZeroPad(f.m, 2) \o <<":">>
          \o ZeroPad(f.s, 2) \o <<".">> \o ZeroPad(f.frac, 2)

\* "item.translation if item.translation else None"
Truthy(translation) == translation # None /\ translation # <<>>

\* the text lines with the bilingual branch tested before translated_only
BodyLines_BilingualFirst(item, bil, tonly) ==
    IF bil /\ Truthy(item.translation)
    THEN <<item.text, item.translation>>
    ELSE IF tonly
         THEN <<IF Truthy(item.translation) THEN item.translation
                ELSE item.text>>
         ELSE <<item.text>>

\* the text lines of one item under the three rendering modes (both
\* serializers branch the same way)
BodyLines(item, bil, tonly) ==
    IF tonly
    THEN <<IF Truthy(item.translation) THEN item.translation ELSE item.text>>
    ELSE IF bil /\ Truthy(item.translation)
         THEN <<item.text, item.translation>>
         ELSE <<item.text>>

\* the lines one iteration of subtitle_items_to_srt appends
SrtBlock(item, bil, tonly, tie_up) ==
    <<IntToStr(item.index),
      format_timestamp(item.start, tie_up) \o <<" ", "-", "-", ">", " ">>
          \o format_timestamp(item.end, tie_up)>>
       \o BodyLines(item, bil, tonly) \o << <<>> >>

\* str.replace(c, r) for a one-character c
RECURSIVE ReplaceChar(_, _, _)
ReplaceChar(s, c, r) ==
    IF s = <<>> THEN <<>>
    ELSE (IF s[1] = c THEN r ELSE <<s[1]>>) \o ReplaceChar(Tail(s), c, r)

\* display.replace("\\", r"\\").replace("{", r"\{").replace("}", r"\}")
AssEscape(display) ==
    ReplaceChar(ReplaceChar(ReplaceChar(display, "\\", <<"\\", "\\">>),
                            "{", <<"\\", "{">>),
                "}", <<"\\", "}">>)

\* display of subtitle_items_to_ass; the bilingual pair is joined by a
\* backslash and an N before the escaping
AssDisplay(item, bil, tonly) ==
    Join(<<"\\", "N">>, BodyLines(item, bil, tonly))

\* a serializer that never skips an item
AssSkips_Never(display) == FALSE

\* "if not display.strip(): continue"
AssSkips(display) == Strip(display) = <<>>

AssHeader ==
    << <<"[Script Info]">>, <<"ScriptType: v4.00+">>, <<"PlayResX: 1920">>,
       <<"PlayResY: 1080">>, <<"ScaledBorderAndShadow: yes">>, <<>>,
       <<"[V4+ Styles]">>, <<"Format: Name, ...">>, <<"Style: Default,...">>,
       <<>>, <<"[Events]">>, <<"Format: Layer, ...">> >>

\* the event line of one item
AssEvent(item, bil, tonly, tie_up) ==
    <<"Dialogue: 0,">> \o format_ass_timestamp(item.start, tie_up) \o <<",">>
       \o format_ass_timestamp(item.end, tie_up) \o <<",Default,,0,0,0,,">>
       \o AssEscape(AssDisplay(item, bil, tonly))

\* sentences_to_subtitle_items: one iteration of the loop over
\* enumerate(sentences, start=1)
SubBuildStep ==
    /\ sub_pc = "build"
    /\ build_idx < Len(sub_sentences)
    /\ LET i == build_idx + 1
           sent == sub_sentences[i]
           text == Strip(sent.text)
       IN sub_items' =
             IF text = <<>> THEN sub_items
             ELSE Append(sub_items,
                         [index |-> i, start |-> sent.start, end |-> sent.end,
                          text |-> text, translation |-> None])
    /\ build_idx' = build_idx + 1
    /\ UNCHANGED <<sub_pc, sub_sentences, bilingual, translated_only,
                   render_idx, lines, srt_text, event_lines, ass_text>>
    /\ UNCHANGED <<seg_vars, tr_vars, lang_vars, pipe_vars>>

\* return items
SubBuildReturn ==
    /\ sub_pc = "build"
    /\ build_idx = Len(sub_sentences)
    /\ sub_pc' = "built"
    /\ UNCHANGED <<sub_sentences, build_idx, sub_items, bilingual,
                   translated_only, render_idx, lines, srt_text, event_lines,
                   ass_text>>
    /\ UNCHANGED <<seg_vars, tr_vars, lang_vars, pipe_vars>>

\* what a translation backend can hand back for one item; "none" is an item
\* of a run without translation
TranslationSet == {None, <<>>, <<" ">>, <<"B", "}">>}

\* pipeline.py: the optional translation stage sets item.translation, then
\* the items are serialized
SubAssign ==
    /\ sub_pc = "built"
    /\ \E trs \in [1..Len(sub_items) -> TranslationSet] :
          sub_items' = [k \in 1..Len(sub_items) |->
                           [sub_items[k] EXCEPT !.translation = trs[k]]]
    /\ sub_pc' = "srt"
    /\ UNCHANGED <<sub_sentences, build_idx, bilingual, translated_only,
                   render_idx, lines, srt_text, event_lines, ass_text>>
    /\ UNCHANGED <<seg_vars, tr_vars, lang_vars, pipe_vars>>

\* subtitle_items_to_srt: one iteration of "for item in items"
SrtStep ==
    /\ sub_pc = "srt"
    /\ render_idx < Len(sub_items)
    /\ \E tie_up \in BOOLEAN :
          lines' = lines \o SrtBlock(sub_items[render_idx + 1], bilingual,
                                     translated_only, tie_up)
    /\ render_idx' = render_idx + 1
    /\ UNCHANGED <<sub_pc, sub_sentences, build_idx, sub_items, bilingual,
                   translated_only, srt_text, event_lines, ass_text>>
    /\ UNCHANGED <<seg_vars, tr_vars, lang_vars, pipe_vars>>

\* return "\n".join(lines).strip() + "\n"
SrtReturn ==
    /\ sub_pc = "srt"
    /\ render_idx = Len(sub_items)
    /\ srt_text' = Strip(Join(<<"\n">>, lines)) \o <<"\n">>
    /\ sub_pc' = "ass"
    /\ render_idx' = 0
    /\ UNCHANGED <<sub_sentences, build_idx, sub_items, bilingual,
                   translated_only, lines, event_lines, ass_text>>
    /\ UNCHANGED <<seg_vars, tr_vars, lang_vars, pipe_vars>>

\* subtitle_items_to_ass: one iteration of "for item in items"
AssStep ==
    /\ sub_pc = "ass"
    /\ render_idx < Len(sub_items)
    /\ LET item == sub_items[render_idx + 1] IN
       \E tie_up \in BOOLEAN :
          event_lines' =
             IF AssSkips(AssDisplay(item, bilingual, translated_only))
             THEN event_lines
             ELSE Append(event_lines,
                         AssEvent(item, bilingual, translated_only, tie_up))
    /\ render_idx' = render_idx + 1
    /\ UNCHANGED <<sub_pc, sub_sentences, build_idx, sub_items, bilingual,
                   translated_only, lines, srt_text, ass_text>>
    /\ UNCHANGED <<seg_vars, tr_vars, lang_vars, pipe_vars>>

\* return "\n".join(header_lines + event_lines) + "\n"
AssReturn ==
    /\ sub_pc = "ass"
    /\ render_idx = Len(sub_items)
    /\ ass_text' = Join(<<"\n">>, AssHeader \o event_lines) \o <<"\n">>
    /\ sub_pc' = "done"
    /\ UNCHANGED <<sub_sentences, build_idx, sub_items, bilingual,
                   translated_only, render_idx, lines, srt_text, event_lines>>
    /\ UNCHANGED <<seg_vars, tr_vars, lang_vars, pipe_vars>>

SubNext ==
    \/ SubBuildStep \/ SubBuildReturn \/ SubAssign
    \/ SrtStep \/ SrtReturn \/ AssStep \/ AssReturn

----------------------------------------------------------------------------
(* pipeline.py: Vid2SubsPipeline.run_to_subtitles                          *)
(* An item's absent translation (None) is the one-token sequence Absent.   *)

Absent == <<None>>

\* source_lang_for_translation = "auto" (line 75)
AutoLang == <<"a", "u", "t", "o">>

EnCode == <<"e", "n">>

OutputKinds == <<"main", "source", "translated", "bilingual">>

\* asr/factory.py: the parameters get_asr_engine declares
AsrFactoryParams == {"lang", "backend"}

\* the keyword arguments run_asr passes to get_asr_engine (lines 44-48)
RunAsrKeywords == {"lang", "backend", "device"}

\* a call with a keyword the function does not declare raises TypeError
CallRaisesTypeError(keywords, params) == ~(keywords \subseteq params)

\* a call of get_asr_engine that the factory accepts
CallRaisesTypeError_Accepted(keywords, params) == FALSE

PipeFail(exc) ==
    /\ pipe_pc' = "failed"
    /\ failure' = exc

\* line 62: run_audio_extraction and extract_audio; the audio file is
\* written by _convert_to_16k_mono, and loading the input can fail
RunAudioExtraction ==
    /\ pipe_pc = "extraction"
    /\ stage_log' = Append(stage_log, "extraction")
    /\ IF ~config.output_audio_path
       THEN PipeFail("ValueError") /\ UNCHANGED files
       ELSE IF ~config.input_exists
       THEN PipeFail("FileNotFoundError") /\ UNCHANGED files
       ELSE \E ok \in BOOLEAN :
               IF ok
               THEN /\ files' = [files EXCEPT !.audio = <<"wav">>]
                    /\ pipe_pc' = "transcription"
                    /\ UNCHANGED failure
               ELSE PipeFail("LoadError") /\ UNCHANGED files
    /\ UNCHANGED <<config, p_items, p_translation, p_translations, last_lang,
                   detected_log, assigned_lang, lang_to_indices, group_idx,
                   backend_calls, assign_count>>
    /\ UNCHANGED <<seg_vars, tr_vars, sub_vars, lang_vars>>

\* line 63: run_asr; get_asr_engine is called with device=, and the engine
\* transcribes only if that call returns
RunAsr ==
    /\ pipe_pc = "transcription"
    /\ IF CallRaisesTypeError(RunAsrKeywords, AsrFactoryParams)
       THEN PipeFail("TypeError") /\ UNCHANGED stage_log
       ELSE /\ stage_log' = Append(stage_log, "transcription")
            /\ \E ok \in BOOLEAN :
                  IF ok THEN pipe_pc' = "segmentation" /\ UNCHANGED failure
                  ELSE PipeFail("TranscribeError")
    /\ UNCHANGED <<config, files, p_items, p_translation, p_translations,
                   last_lang, detected_log, assigned_lang, lang_to_indices,
                   group_idx, backend_calls, assign_count>>
    /\ UNCHANGED <<seg_vars, tr_vars, sub_vars, lang_vars>>

RunNext == RunAudioExtraction \/ RunAsr

\* langdetect.py: what fast_langdetect's detect_language does with a text:
\* it raises, returns an empty code, or returns a code
DetectOutcomes ==
    { [raises |-> TRUE, code |-> <<>>], [raises |-> FALSE, code |-> <<>>],
      [raises |-> FALSE, code |-> <<"E", "N">>],
      [raises |-> FALSE, code |-> <<"z", "h">>] }

\* detect_lang_code: None for a blank text, an exception or an empty code,
\* otherwise the code in lower case (threshold is not read)
detect_lang_code(text, outcome) ==
    IF text = <<>> \/ Strip(text) = <<>> THEN Absent
    ELSE IF outcome.raises THEN Absent
    ELSE IF outcome.code = <<>> THEN Absent
    ELSE Lower(outcome.code)

\* the fallback that forgets the last detected language
StickyLang_Seed(last, detected) ==
    IF detected # Absent THEN detected ELSE EnCode

\* lines 92-94: if detected: last_lang = detected; src_lang = last_lang
StickyLang(last, detected) ==
    IF detected # Absent THEN detected ELSE last

\* lang_to_indices.setdefault(src_lang, []).append(idx) on a dict kept in
\* insertion order
SetDefaultAppend(d, lang, i) ==
    IF \E g \in 1..Len(d) : d[g].lang = lang
    THEN [g \in 1..Len(d) |->
             IF d[g].lang = lang
             THEN [d[g] EXCEPT !.indices = Append(@, i)] ELSE d[g]]
    ELSE Append(d, [lang |-> lang, indices |-> <<i>>])

\* the write-back that fills the list from its start
write_back_Packed(trs, indices, batch) ==
    [i \in 1..Len(trs) |->
        IF i <= Min(Len(indices), Len(batch)) THEN batch[i]
        ELSE trs[i]]

\* lines 105-106: for i, t in zip(indices, batch_translations)
write_back(trs, indices, batch) ==
    [i \in 1..Len(trs) |->
        IF \E k \in 1..Min(Len(indices), Len(batch)) : indices[k] = i
        THEN batch[CHOOSE k \in 1..Min(Len(indices), Len(batch)) :
                      indices[k] = i]
        ELSE trs[i]]

\* the assignment that stops after the first item
assign_translations_First(current, trs) ==
    [i \in 1..Len(current) |->
        IF i <= Min(1, Len(trs)) THEN trs[i]
        ELSE current[i]]

\* lines 120-121: for item, translated_text in zip(items, translations)
assign_translations(current, trs) ==
    [i \in 1..Len(current) |->
        IF i <= Len(trs) THEN trs[i] ELSE current[i]]

\* what translate_subtitles of the Google and LLM engines gives the
\* pipeline: a list with one entry per item (translations is pre-sized at
\* google_translator.py:114, assembled per item at llm_translator.py:696),
\* or an exception (LLM only)
BackendOutcomes(e) ==
    IF e = "google" THEN {"translated", "kept"}
    ELSE {"translated", "empty", "raise"}

BackendList(its, outcome) ==
    [i \in 1..Len(its) |->
        CASE outcome = "translated" -> Strip(Translate(its[i].text))
          [] outcome = "kept" -> its[i].text
          [] OTHER -> <<>>]

\* M2M100Translator.translate_subtitles as one call
M2MCall(its, outcome) ==
    IF its = <<>> THEN <<>>
    ELSE Reconcile(translate_batch(TextsOf_items(its), outcome), Len(its))

IsMultilingual(cfg) ==
    /\ cfg.translation_engine = "m2m100"
    /\ Upper(cfg.source_lang) \in { <<"E", "U">>, <<"A", "U", "T", "O">> }

\* lines 68-69: the translation stage is entered and the engine constructed;
\* LLMTranslator.__init__ raises without its URL or model
GetTranslationEngine ==
    /\ pipe_pc = "translation"
    /\ IF config.translate_lang = <<>>
       THEN pipe_pc' = "write_main" /\ UNCHANGED <<failure, stage_log>>
       ELSE /\ stage_log' = Append(stage_log, "translation")
            /\ IF config.translation_engine = "llm" /\ ~config.llm_configured
               THEN PipeFail("RuntimeError")
               ELSE /\ pipe_pc' = IF IsMultilingual(config) THEN "detect"
                                  ELSE "translate"
                    /\ UNCHANGED failure
    /\ UNCHANGED <<config, files, p_items, p_translation, p_translations,
                   last_lang, detected_log, assigned_lang, lang_to_indices,
                   group_idx, backend_calls, assign_count>>
    /\ UNCHANGED <<seg_vars, tr_vars, sub_vars, lang_vars>>

\* lines 73-80 and 112-118: one translate_subtitles call for all items
TranslateAll ==
    /\ pipe_pc = "translate"
    /\ LET e == config.translation_engine
           src == IF e = "m2m100" THEN config.source_lang ELSE AutoLang
       IN IF e = "m2m100"
          THEN \E o \in M2MOutcomes :
                 IF o = "error"
                 THEN /\ PipeFail("BackendError")
                      /\ UNCHANGED <<p_translations, backend_calls>>
                 ELSE LET r == M2MCall(p_items, o) IN
                      /\ p_translations' = r
                      /\ backend_calls' = Append(backend_calls,
                            [source_lang |-> src,
                             indices |-> [i \in 1..Len(p_items) |-> i],
                             result |-> r])
                      /\ pipe_pc' = "assign"
                      /\ UNCHANGED failure
          ELSE \E o \in BackendOutcomes(e) :
                 IF o = "raise"
                 THEN /\ PipeFail("BackendError")
                      /\ UNCHANGED <<p_translations, backend_calls>>
                 ELSE LET r == BackendList(p_items, o) IN
                      /\ p_translations' = r
                      /\ backend_calls' = Append(backend_calls,
                            [source_lang |-> src,
                             indices |-> [i \in 1..Len(p_items) |-> i],
                             result |-> r])
                      /\ pipe_pc' = "assign"
                      /\ UNCHANGED failure
    /\ UNCHANGED <<config, files, stage_log, p_items, p_translation,
                   last_lang, detected_log, assigned_lang, lang_to_indices,
                   group_idx, assign_count>>
    /\ UNCHANGED <<seg_vars, tr_vars, sub_vars, lang_vars>>

\* lines 84-96: one iteration of the detection loop; translations is
\* pre-sized on the way in
DetectStep ==
    /\ pipe_pc = "detect"
    /\ LET idx0 == Len(assigned_lang) IN
       IF idx0 = Len(p_items)
       THEN /\ pipe_pc' = "group_calls"
            /\ p_translations' =
                  (IF idx0 = 0 THEN <<>> ELSE p_translations)
            /\ UNCHANGED <<last_lang, detected_log, assigned_lang,
                           lang_to_indices>>
       ELSE \E o \in DetectOutcomes :
               LET detected == detect_lang_code(p_items[idx0 + 1].text, o)
                   src_lang == StickyLang(last_lang, detected)
               IN /\ p_translations' =
                        (IF idx0 = 0 THEN [i \in 1..Len(p_items) |-> <<>>]
                         ELSE p_translations)
                  /\ last_lang' = src_lang
                  /\ detected_log' = Append(detected_log, detected)
                  /\ assigned_lang' = Append(assigned_lang, src_lang)
                  /\ lang_to_indices' =
                        SetDefaultAppend(lang_to_indices, src_lang, idx0 + 1)
                  /\ UNCHANGED pipe_pc
    /\ UNCHANGED <<config, files, stage_log, failure, p_items, p_translation,
                   group_idx, backend_calls, assign_count>>
    /\ UNCHANGED <<seg_vars, tr_vars, sub_vars, lang_vars>>

\* lines 98-106: the call for the next language group and its write-back
GroupCall ==
    /\ pipe_pc = "group_calls"
    /\ IF group_idx = Len(lang_to_indices)
       THEN /\ pipe_pc' = "assign"
            /\ UNCHANGED <<failure, p_translations, group_idx, backend_calls>>
       ELSE LET g == lang_to_indices[group_idx + 1]
                batch_items == [k \in 1..Len(g.indices) |->
                                   p_items[g.indices[k]]]
            IN \E o \in M2MOutcomes :
                 IF o = "error"
                 THEN /\ PipeFail("BackendError")
                      /\ UNCHANGED <<p_translations, group_idx,
                                     backend_calls>>
                 ELSE LET r == M2MCall(batch_items, o) IN
                      /\ backend_calls' = Append(backend_calls,
                            [source_lang |-> g.lang, indices |-> g.indices,
                             result |-> r])
                      /\ p_translations' =
                            write_back(p_translations, g.indices, r)
                      /\ group_idx' = group_idx + 1
                      /\ UNCHANGED <<pipe_pc, failure>>
    /\ UNCHANGED <<config, files, stage_log, p_items, p_translation,
                   last_lang, detected_log, assigned_lang, lang_to_indices,
                   assign_count>>
    /\ UNCHANGED <<seg_vars, tr_vars, sub_vars, lang_vars>>

\* lines 120-121: item.translation = translated_text for each pair
AssignTranslations ==
    /\ pipe_pc = "assign"
    /\ p_translation' = assign_translations(p_translation, p_translations)
    /\ assign_count' =
          [i \in 1..Len(p_items) |->
              IF i <= Len(p_translations) THEN assign_count[i] + 1
              ELSE assign_count[i]]
    /\ pipe_pc' = "write_main"
    /\ UNCHANGED <<config, files, stage_log, failure, p_items,
                   p_translations, last_lang, detected_log, assigned_lang,
                   lang_to_indices, group_idx, backend_calls>>
    /\ UNCHANGED <<seg_vars, tr_vars, sub_vars, lang_vars>>

\* a failed write that removes what the run has written
failed_write_Cleanup(fs, kind, partial) ==
    [k \in DOMAIN fs |-> Absent]

\* write_srt raising: before the file is opened, or with the file at path
\* partly written
failed_write(fs, kind, partial) ==
    IF partial THEN [fs EXCEPT ![kind] = <<"partial">>] ELSE fs

\* write_srt returning: path.write_text(content); the content is kept as
\* the rendering mode and the items' translations it was rendered from
write_srt(fs, kind, translation) ==
    [fs EXCEPT ![kind] = <<kind, translation>>]

\* lines 124-153: one of the four write_srt calls, made if its path is set
WriteFile(kind, pc, next_pc) ==
    /\ pipe_pc = pc
    /\ IF kind \notin config.outputs
       THEN /\ pipe_pc' = next_pc
            /\ UNCHANGED <<files, failure, stage_log>>
       ELSE /\ stage_log' = IF "serialization" \in Range(stage_log)
                            THEN stage_log
                            ELSE Append(stage_log, "serialization")
            /\ \E ok \in BOOLEAN, partial \in BOOLEAN :
                  IF ok
                  THEN /\ files' = write_srt(files, kind, p_translation)
                       /\ pipe_pc' = next_pc
                       /\ UNCHANGED failure
                  ELSE /\ files' = failed_write(files, kind, partial)
                       /\ PipeFail("OSError")
    /\ UNCHANGED <<config, p_items, p_translation, p_translations, last_lang,
                   detected_log, assigned_lang, lang_to_indices, group_idx,
                   backend_calls, assign_count>>
    /\ UNCHANGED <<seg_vars, tr_vars, sub_vars, lang_vars>>

WriteMain == WriteFile("main", "write_main", "write_source")

WriteSource == WriteFile("source", "write_source", "write_translated")

WriteTranslated == WriteFile("translated", "write_translated", "write_bilingual")

WriteBilingual == WriteFile("bilingual", "write_bilingual", "done")

StageNext ==
    \/ GetTranslationEngine \/ TranslateAll \/ DetectStep \/ GroupCall
    \/ AssignTranslations
    \/ WriteMain \/ WriteSource \/ WriteTranslated \/ WriteBilingual

----------------------------------------------------------------------------
(* Specifications *)

ItemTextSet == { <<>>, <<"a">>, <<"b", "b">> }

\* sentences_to_subtitle_items numbers the items in order
ItemLists ==
    UNION {[1..n -> ItemTextSet] : n \in 0..MaxItems}

MakeItems(texts) == [i \in 1..Len(texts) |-> [index |-> i, text |-> texts[i]]]

\* TEXT_LIMIT and TRANSLATE_TEXT_LIMIT of the engine, 0 where the engine
\* has no such setting; for the LLM engine, planning reads only the first
\* and batching only the second, and each is varied with the other at
\* MaxLimit
Limits(e) ==
    CASE e = "m2m100" -> {<<0, 0>>}
      [] e = "google" -> {<<l, 0>> : l \in 1..MaxLimit}
      [] OTHER -> {<<l, MaxLimit>> : l \in 1..MaxLimit}
                     \cup {<<MaxLimit, l>> : l \in 1..MaxLimit}

TrIdle ==
    /\ engine = "off" /\ items = <<>> /\ text_limit = 0
    /\ translate_text_limit = 0 /\ max_workers = 0 /\ tr_pc = "off"
    /\ groups = <<>> /\ responses = <<>> /\ merged = {}
    /\ translations = <<>> /\ translations_by_index = <<>>
    /\ writes = <<>> /\ calls = <<>> /\ plan_defects = {} /\ returned = None
    /\ item_translation = <<>>

TrInit ==
    /\ engine \in {"google", "m2m100", "llm"}
    /\ \E texts \in ItemLists :
          /\ items = MakeItems(texts)
          /\ item_translation = [i \in 1..Len(texts) |-> None]
    /\ \E l \in Limits(engine) :
          text_limit = l[1] /\ translate_text_limit = l[2]
    /\ max_workers \in (IF engine = "m2m100" THEN {1} ELSE {1, MaxWorkers})
    /\ tr_pc = "start"
    /\ groups = <<>> /\ responses = <<>> /\ merged = {}
    /\ translations = <<>> /\ translations_by_index = <<>>
    /\ writes = <<>> /\ calls = <<>> /\ plan_defects = {} /\ returned = None

\* language codes a caller passes: the presets in several cases, plain
\* codes, region- and script-qualified codes with either separator, and
\* blank ones
SourceLangCodes ==
    { <<"E", "N">>, <<"e", "u">>, <<"E", "u">>, <<"f", "r">>,
      <<"z", "h", "-", "C", "N">>, <<"z", "h", "_", "c", "n">>,
      <<"z", "h", "-", "H", "a", "n", "t">>, <<"e", "n", "-", "U", "S">>,
      <<"p", "t", "-", "B", "R">>, <<"p", "t", "_", "B", "R">>,
      <<" ", "z", "h", " ">>, <<" ">>, <<>> }

TargetLangCodes ==
    { <<"z", "h", "-", "C", "N">>, <<"f", "r", "-", "C", "A">> }

LangIdle ==
    /\ source_lang = None /\ target_lang = None
    /\ tokenizer_src_lang = None /\ forced_lang = None

\* the pipeline passes "auto" to the Google and LLM engines
LangInit ==
    /\ source_lang \in (IF engine = "m2m100" THEN SourceLangCodes
                                             ELSE {AutoLang})
    /\ target_lang \in (IF engine = "m2m100" THEN TargetLangCodes
                                             ELSE {<<"z", "h", "-", "C", "N">>})
    /\ tokenizer_src_lang = None /\ forced_lang = None

TrNext == GoogleNext \/ LLMNext \/ M2MTranslate \/ PipelineAssign

\* sentences a caller can pass: a plain one starting before zero, a blank
\* one, one with the characters the ASS format escapes, and one whose times
\* fall between two milliseconds and two centiseconds
SentenceSet ==
    { [text |-> <<"a">>, start |-> -15, end |-> 15000],
      [text |-> <<" ">>, start |-> 15000, end |-> 15000],
      [text |-> <<"{", "\\", "}">>, start |-> 15000, end |-> 36612340],
      [text |-> <<"a", " ">>, start |-> 599996, end |-> 15050] }

SentenceLists == UNION {[1..n -> SentenceSet] : n \in 0..MaxSentences}

SubIdle ==
    /\ sub_pc = "off" /\ sub_sentences = <<>> /\ build_idx = 0
    /\ sub_items = <<>> /\ bilingual = FALSE /\ translated_only = FALSE
    /\ render_idx = 0 /\ lines = <<>> /\ srt_text = None
    /\ event_lines = <<>> /\ ass_text = None

SubInit ==
    /\ sub_pc = "build"
    /\ sub_sentences \in SentenceLists
    /\ bilingual \in BOOLEAN
    /\ translated_only \in BOOLEAN
    /\ build_idx = 0 /\ sub_items = <<>> /\ render_idx = 0
    /\ lines = <<>> /\ srt_text = None
    /\ event_lines = <<>> /\ ass_text = None

\* the item lists sentences_to_subtitle_items can hand on: no blank text
PipeTextSet == { <<"a">>, <<"b", "b">> }

PipeItemLists == UNION {[1..n -> PipeTextSet] : n \in 0..MaxPipeItems}

\* the sets of subtitle paths a configuration names
OutputSets ==
    { {}, {"main"}, {"main", "translated"},
      {"main", "source", "translated", "bilingual"} }

\* Vid2SubsConfig, with the environment of LLMTranslator; a field an
\* engine does not read is kept at one value
Configs ==
    { c \in [input_exists : BOOLEAN, output_audio_path : BOOLEAN,
              source_lang : { <<"E", "U">>, AutoLang, <<"E", "N">> },
              translate_lang : { <<>>, <<"z", "h", "-", "C", "N">> },
              translation_engine : {"google", "m2m100", "llm"},
              llm_configured : BOOLEAN, outputs : OutputSets] :
        /\ c.translation_engine # "llm" => c.llm_configured
        /\ c.translation_engine # "m2m100" => c.source_lang = <<"E", "U">> }

NoFiles == [k \in {"audio"} \cup Range(OutputKinds) |-> Absent]

PipeIdle ==
    /\ pipe_pc = "off" /\ config = None /\ files = NoFiles
    /\ stage_log = <<>> /\ failure = None /\ p_items = <<>>
    /\ p_translation = <<>> /\ p_translations = <<>> /\ last_lang = EnCode
    /\ detected_log = <<>> /\ assigned_lang = <<>> /\ lang_to_indices = <<>>
    /\ group_idx = 0 /\ backend_calls = <<>> /\ assign_count = <<>>

\* run_to_subtitles is entered
RunInit ==
    /\ pipe_pc = "extraction" /\ config \in Configs /\ files = NoFiles
    /\ stage_log = <<>> /\ failure = None /\ p_items = <<>>
    /\ p_translation = <<>> /\ p_translations = <<>> /\ last_lang = EnCode
    /\ detected_log = <<>> /\ assigned_lang = <<>> /\ lang_to_indices = <<>>
    /\ group_idx = 0 /\ backend_calls = <<>> /\ assign_count = <<>>

\* line 68 is reached: the audio file is written and the items are built,
\* none with a translation
StageInit ==
    /\ pipe_pc = "translation"
    /\ config \in {c \in Configs : c.input_exists /\ c.output_audio_path}
    /\ files = [NoFiles EXCEPT !.audio = <<"wav">>]
    /\ stage_log = <<"extraction", "transcription", "segmentation", "build">>
    /\ failure = None
    /\ \E texts \in PipeItemLists :
          /\ p_items = MakeItems(texts)
          /\ p_translation = [i \in 1..Len(texts) |-> Absent]
          /\ assign_count = [i \in 1..Len(texts) |-> 0]
    /\ p_translations = <<>> /\ last_lang = EnCode
    /\ detected_log = <<>> /\ assigned_lang = <<>> /\ lang_to_indices = <<>>
    /\ group_idx = 0 /\ backend_calls = <<>>

SegStart == SegInit /\ TrIdle /\ SubIdle /\ LangIdle /\ PipeIdle

SegTimedStart == SegTimedInit /\ TrIdle /\ SubIdle /\ LangIdle /\ PipeIdle

TrStart == TrInit /\ LangInit /\ SegIdle /\ SubIdle /\ PipeIdle

SubStart == SubInit /\ SegIdle /\ TrIdle /\ LangIdle /\ PipeIdle

SegSpec == SegStart /\ [][SegNext]_vars

SegTimedSpec == SegTimedStart /\ [][SegNext]_vars

TrSpec == TrStart /\ [][TrNext]_vars

SubSpec == SubStart /\ [][SubNext]_vars

RunStart == RunInit /\ SegIdle /\ TrIdle /\ SubIdle /\ LangIdle

StageStart == StageInit /\ SegIdle /\ TrIdle /\ SubIdle /\ LangIdle

RunSpec == RunStart /\ [][RunNext]_vars

StageSpec == StageStart /\ [][StageNext]_vars

Init ==
    \/ SegStart \/ SegTimedStart \/ TrStart \/ SubStart
    \/ RunStart \/ StageStart

Next == SegNext \/ TrNext \/ SubNext \/ RunNext \/ StageNext

Spec == Init /\ [][Next]_vars

----------------------------------------------------------------------------
(* Properties of words_to_sentences *)

RECURSIVE FlattenWords(_)
FlattenWords(ss) ==
    IF ss = <<>> THEN <<>> ELSE ss[1].words \o FlattenWords(Tail(ss))

\* the texts of the input words at positions a..b
TextsOf(a, b) == [j \in 1..(b - a + 1) |-> words[a + j - 1].text]

\* len(" ".join(texts_slice)) of a sentence
RawLen(s) == Len(JoinSpace([j \in 1..Len(s.words) |-> words[s.words[j]].text]))

\* words accounted for so far: emitted, then still buffered
Accounted == FlattenWords(sentences) \o buffer_words

Missing == {i \in 1..idx : i \notin Range(Accounted)}

\* sentences' words are non-empty contiguous runs; emitted and buffered words
\* appear once each, in input order
WordsInOrder ==
    /\ \A k \in 1..Len(sentences) :
          /\ sentences[k].words # <<>>
          /\ \A j \in 1..(Len(sentences[k].words) - 1) :
                sentences[k].words[j + 1] = sentences[k].words[j] + 1
    /\ \A j \in 1..Len(Accounted) : Accounted[j] \in 1..idx
    /\ \A j \in 1..(Len(Accounted) - 1) : Accounted[j] < Accounted[j + 1]
    /\ (seg_pc = "done" => buffer_words = <<>> /\ idx = Len(words))

\* every run of dropped words has an empty text under Empty(texts)
DroppedOnly(Empty(_)) ==
    \A a \in 1..idx : \A b \in a..idx :
        (\A i \in a..b : i \in Missing) => Empty(TextsOf(a, b))

TrimmedEmpty(texts) == Strip(JoinSpace(texts)) = <<>>
FinalTextEmpty(texts) == SentenceText(texts, strip_punct) = <<>>

NewSentences == {k \in 1..Len(sentences') : k > Len(sentences)}

\* C2 as stated: every emitted sentence has raw length <= max_chars unless
\* the buffer it was cut from (the buffered run from the sentence's first
\* word to the word just appended) held no word ending in breakable
\* punctuation.
C2_Original ==
    [][seg_pc = "loop" =>
         \A k \in NewSentences :
            LET s == sentences'[k] IN
            \/ Len(JoinSpace(TextsOf(s.words[1], s.words[Len(s.words)])))
                   <= max_chars
            \/ \A j \in s.words[1]..(idx + 1) :
                   ~IsBreakableToken(words[j].text)]_vars

\* C2 (amended): every sentence whose last word is not the word appended in
\* the step that emitted it (a length-overflow cut at an earlier breakable
\* word) has raw space-joined length <= max_chars; a sentence ending at the
\* word just appended (terminal flush, cut at that word, final flush) may
\* exceed it.
C2_BoundedBeforeLast ==
    [][seg_pc = "loop" =>
         \A k \in NewSentences :
            LET s == sentences'[k] IN
            s.words[Len(s.words)] # idx + 1 =>
               Len(JoinSpace(TextsOf(s.words[1], s.words[Len(s.words)])))
                   <= max_chars]_vars

\* a sentence cut at a breakable word with the rest kept in the buffer
C2_Witness ==
    /\ seg_pc = "loop"
    /\ buffer_words # <<>>
    /\ \E k \in 1..Len(sentences) :
          /\ sentences[k].words[Len(sentences[k].words)] + 1 = buffer_words[1]
          /\ Len(sentences[k].words) >= 2
          /\ RawLen(sentences[k]) = max_chars

NoInnerTerminal ==
    \A k \in 1..Len(sentences) :
       \A j \in 1..(Len(sentences[k].words) - 1) :
          ~is_sentence_end_token(words[sentences[k].words[j]].text)

TerminalStep == seg_pc = "loop" /\ is_sentence_end_token(words[idx + 1].text)

----------------------------------------------------------------------------
(* Properties of the translation backends *)

Returned == tr_pc \in {"returned", "assigned"}

\* the unit whose group or batch holds item position i
UnitOf(i) == CHOOSE u \in Units : i \in Range(groups[u])

\* the place of item position i within its group
PlaceIn(g, i) == CHOOSE k \in 1..Len(g) : g[k] = i

\* the texts the batch answers of the LLM give for the index x
LLMAnswers(x) ==
    {StripControl(e.translated_text) :
        e \in {f \in UNION {Range(BatchEntries(items, groups[u], responses[u])) :
                    u \in {v \in Units : responses[v] \notin {None, "fail"}}} :
               f.index = x}}

\* the answer to a Google group counts as failed when the call raised or the
\* number of lines differs from the group size
GroupFailed(u) ==
    LET r == translate_text(Join(<<"\n">>, GroupTexts(items, groups[u])),
                            responses[u])
    IN r.raised \/ Len(SplitLines(r.value)) # Len(groups[u])

GroupLines(u) ==
    SplitLines(translate_text(Join(<<"\n">>, GroupTexts(items, groups[u])),
                              responses[u]).value)

\* the line the service's answer holds at the place of item position i
LineFor(i) ==
    LET u == UnitOf(i)
        k == PlaceIn(groups[u], i)
    IN IF k <= Len(GroupLines(u)) THEN {Strip(GroupLines(u)[k])} ELSE {}

BatchFailed == \E u \in Units : responses[u] = "fail"

\* C6: once a batch call of the LLM backend has failed, no list is ever
\* returned and no item's translation is set; the run can only end raised.
C6_BatchFailureFatal ==
    (engine = "llm" /\ BatchFailed) =>
       /\ returned = None
       /\ tr_pc \in {"pool", "aborting", "raised"}
       /\ \A i \in 1..Len(items) : item_translation[i] = None
       /\ (tr_pc = "pool" => \E u \in Units : u \notin merged)

\* a pool run that merged one batch before it met the failed one
C6_Witness ==
    /\ engine = "llm" /\ tr_pc = "raised" /\ WorkerCount > 1
    /\ merged # {}
    /\ BatchFailed

\* the result of merging the units' answers in submission order
GoogleInOrder ==
    LET F[n \in 0..Len(groups)] ==
            IF n = 0 THEN [i \in 1..Len(items) |-> <<>>]
            ELSE WriteBack(F[n - 1], groups[n],
                           process_group(items, groups[n], responses[n]))
    IN F[Len(groups)]

LLMInOrder ==
    LET F[n \in 0..Len(groups)] ==
            IF n = 0 THEN <<>>
            ELSE DictUpdate(F[n - 1],
                            process_batch(items, groups[n], responses[n]))
    IN AssembleByIndex(items, F[Len(groups)])

\* C7: with the units' answers fixed, the list returned by a pool run is the
\* one the merge in submission order gives, so it is the same for every
\* completion order.
C7_OrderIndependent ==
    (Returned /\ WorkerCount > 1) =>
       CASE engine = "google" -> returned = GoogleInOrder
         [] engine = "llm" -> returned = LLMInOrder
         [] OTHER -> TRUE

\* the slots of the result container that belong to the items of unit u
OwnSlots(u) ==
    IF engine = "llm" THEN {items[i].index : i \in Range(groups[u])}
    ELSE Range(groups[u])

\* C8: every slot of the shared result container is written at most once
\* while the backend runs, only by the unit that owns the slot's item, and
\* exactly once by the time the list is returned.
C8_WriteOnce ==
    engine \in {"google", "llm"} =>
       \A s \in DOMAIN writes :
          /\ writes[s].n <= 1
          /\ \A u \in writes[s].by : s \in OwnSlots(u)
          /\ (Returned => writes[s].n = 1)

RECURSIVE Flatten(_)
Flatten(ss) == IF ss = <<>> THEN <<>> ELSE ss[1] \o Flatten(Tail(ss))

GroupLen(g) ==
    LET F[k \in 0..Len(g)] ==
            IF k = 0 THEN 0 ELSE F[k - 1] + Len(items[g[k]].text)
    IN F[Len(g)]

PlanningCalls ==
    LET tr == {n \in 1..Len(calls) : calls[n] = "translate"}
        stop == IF tr = {} THEN Len(calls)
                ELSE (CHOOSE n \in tr : \A m \in tr : n <= m) - 1
    IN SubSeq(calls, 1, stop)

CeilDiv(a, b) == (a + b - 1) \div b

\* n chunk-summary calls, then one global-plan call
LongPlan(n) ==
    [k \in 1..(n + 1) |-> IF k <= n THEN "chunk_summary" ELSE "global_plan"]

InBatches ==
    /\ engine = "llm" /\ items # <<>>
    /\ \/ tr_pc \in {"seq", "pool", "aborting", "returned", "assigned"}
       \/ tr_pc = "raised" /\ groups # <<>>

\* C10 as stated: one planning call below the threshold, otherwise
\* ceil(totalLength / text_limit) chunk-summary calls and one global-plan
\* call.
C10_Original ==
    InBatches =>
       PlanningCalls =
          IF total_text_length(items) < text_limit THEN <<"plan_short">>
          ELSE LongPlan(CeilDiv(total_text_length(items), text_limit))

\* the greedy chunks: contiguous runs of the items, each within the limit
\* or a single item, none of which could take the next chunk's first item
IsGreedyChunking(cs) ==
    /\ Flatten(cs) = [i \in 1..Len(items) |-> i]
    /\ \A c \in 1..Len(cs) :
          /\ cs[c] # <<>>
          /\ GroupLen(cs[c]) <= text_limit \/ Len(cs[c]) = 1
          /\ c < Len(cs) =>
                GroupLen(cs[c]) + Len(items[cs[c + 1][1]].text) > text_limit

\* C10 (amended): before any translation call the LLM backend issues
\* exactly one planning call when the total text length is at most
\* text_limit, and otherwise exactly one chunk-summary call per chunk of the
\* greedy contiguous chunking under text_limit, followed by exactly one
\* global-plan call; that number of chunks is at least
\* ceil(totalLength / text_limit) when no single item exceeds text_limit.
C10_PlanningCalls ==
    InBatches =>
       LET total == total_text_length(items)
           cs == llm_chunks(items, text_limit)
       IN /\ IsGreedyChunking(cs)
          /\ PlanningCalls = IF total <= text_limit THEN <<"plan_short">>
                             ELSE LongPlan(Len(cs))
          /\ (\A i \in 1..Len(items) : Len(items[i].text) <= text_limit)
                => Len(cs) >= CeilDiv(total, text_limit)

\* a long text whose chunks outnumber ceil(totalLength / text_limit)
C10_Witness ==
    /\ InBatches
    /\ tr_pc = "returned"
    /\ total_text_length(items) > text_limit
    /\ Len(llm_chunks(items, text_limit))
          > CeilDiv(total_text_length(items), text_limit)

----------------------------------------------------------------------------
(* Properties of LLMTranslator's protocol handling and assembly *)

\* an answer that lacks a field the caller reads, or that never arrived
DefectiveUnits == {u \in Units : responses[u] \in {"fail", "nofield"}}

\* C11: every LLM call issues one request, and when the request fails, its
\* content is not JSON, or the answer lacks an expected top-level field
\* (choices / content of the envelope, translation_prompt of a plan,
\* translations of a batch answer), translate_subtitles does not return a
\* list of translations.
C11_ProtocolFailureFatal ==
    (engine = "llm" /\ Returned) =>
        /\ plan_defects = {}
        /\ DefectiveUnits = {}
        /\ NumCalls("translate") = Cardinality(Units)

HasControl(s) == \E k \in 1..Len(s) : IsControl(s[k])

\* C12: when _translate_in_batches returns, entry i is the text the index
\* map holds under items[i].index, or the empty string when no batch answer
\* supplied that index, and no returned text holds a control character.
C12_AssembledByIndex ==
    (engine = "llm" /\ Returned /\ items # <<>>) =>
        /\ Len(returned) = Len(items)
        /\ \A i \in 1..Len(items) :
              /\ returned[i] =
                    IF items[i].index \in DOMAIN translations_by_index
                    THEN translations_by_index[items[i].index]
                    ELSE <<>>
              /\ ~HasControl(returned[i])

\* a returned list with an index no answer supplied and a text whose answer
\* carried a control character
C12_Witness ==
    /\ engine = "llm" /\ tr_pc = "returned"
    /\ \E i \in 1..Len(items) :
          /\ items[i].index \notin DOMAIN translations_by_index
          /\ returned[i] = <<>>
    /\ \E u \in Units, k \in 1..Len(items) :
          /\ responses[u] = "stray"
          /\ \E e \in Range(BatchEntries(items, groups[u], "stray")) :
                /\ e.index = items[k].index
                /\ HasControl(e.translated_text)
                /\ returned[k] = StripControl(e.translated_text)

----------------------------------------------------------------------------
(* Properties of the subtitle builder and the serializers *)

Built == sub_pc \notin {"off", "build"}

\* positions of the sentences whose trimmed text is not empty
KeptSentences ==
    SelectSeq([i \in 1..Len(sub_sentences) |-> i],
              LAMBDA i : Strip(sub_sentences[i].text) # <<>>)

\* C13: sentences_to_subtitle_items returns one item per sentence with a
\* non-empty trimmed text, in input order, and the items' indices are
\* 1, 2, ..., n without gaps, also when a sentence was skipped.
C13_SequentialIndices ==
    Built =>
       /\ Len(sub_items) = Len(KeptSentences)
       /\ \A k \in 1..Len(sub_items) :
             /\ sub_items[k].text = Strip(sub_sentences[KeptSentences[k]].text)
             /\ sub_items[k].index = k

\* the lines of the returned SRT text, without the final newline
SrtOutLines == SplitLines(SubSeq(srt_text, 1, Len(srt_text) - 1))

\* the blocks a reader of the format sees: runs of lines between blank lines
RECURSIVE SplitBlocks(_, _)
SplitBlocks(ls, cur) ==
    IF ls = <<>> THEN (IF cur = <<>> THEN <<>> ELSE <<cur>>)
    ELSE IF ls[1] = <<>>
         THEN (IF cur = <<>> THEN <<>> ELSE <<cur>>) \o SplitBlocks(Tail(ls), <<>>)
         ELSE SplitBlocks(Tail(ls), Append(cur, ls[1]))

SrtBlocks == SplitBlocks(SrtOutLines, <<>>)

\* the text lines of block k: what follows the index and the time range
SrtTextLines(k) == SubSeq(SrtBlocks[k], 3, Len(SrtBlocks[k]))

SrtWritten == sub_pc \in {"ass", "done"}

HasTranslation(item) == item.translation # None /\ item.translation # <<>>

\* C14: in translated-only mode the SRT text has, for every item, exactly
\* one text line: the translation when it is present and non-empty,
\* otherwise the source text; never an empty one.
C14_TranslatedOnlyLine ==
    (SrtWritten /\ translated_only) =>
       /\ Len(SrtBlocks) = Len(sub_items)
       /\ \A k \in 1..Len(sub_items) :
             /\ SrtBlocks[k][1] = IntToStr(sub_items[k].index)
             /\ SrtTextLines(k) =
                   <<IF HasTranslation(sub_items[k])
                     THEN sub_items[k].translation
                     ELSE sub_items[k].text>>
             /\ SrtTextLines(k)[1] # <<>>

\* C15: in bilingual mode the SRT text has, for every item, the source text
\* line followed by the translation line exactly when the translation is
\* present and non-empty, and otherwise the single source text line of the
\* source-only rendering.
C15_BilingualLines ==
    (SrtWritten /\ bilingual /\ ~translated_only) =>
       /\ Len(SrtBlocks) = Len(sub_items)
       /\ \A k \in 1..Len(sub_items) :
             /\ SrtBlocks[k][1] = IntToStr(sub_items[k].index)
             /\ SrtTextLines(k) =
                   IF HasTranslation(sub_items[k])
                   THEN <<sub_items[k].text, sub_items[k].translation>>
                   ELSE <<sub_items[k].text>>

\* the same two claims for the items whose translation is not blank
NoBlankTranslation ==
    \A k \in 1..Len(sub_items) :
       HasTranslation(sub_items[k]) => Strip(sub_items[k].translation) # <<>>

SrtLinesUnlessBlank ==
    (SrtWritten /\ NoBlankTranslation) =>
       /\ Len(SrtBlocks) = Len(sub_items)
       /\ \A k \in 1..Len(sub_items) :
             SrtTextLines(k) = BodyLines(sub_items[k], bilingual,
                                         translated_only)

AssWritten == sub_pc = "done"

\* the items subtitle_items_to_ass does not skip, in order
AssShown ==
    SelectSeq([k \in 1..Len(sub_items) |-> k],
              LAMBDA k : ~AssSkips(AssDisplay(sub_items[k], bilingual,
                                              translated_only)))

\* the dialogue text: what follows the fixed fields and the two ten-
\* character timestamps of an event line (tokens at positions 1, 12 and 23)
AssTextOf(event) == SubSeq(event, 24, Len(event))

\* every backslash and curly brace preceded by a backslash
Escaped(s) ==
    LET F[i \in 0..Len(s)] ==
           IF i = 0 THEN <<>>
           ELSE F[i - 1] \o (IF s[i] \in {"\\", "{", "}"}
                             THEN <<"\\", s[i]>> ELSE <<s[i]>>)
    IN F[Len(s)]

\* C16: the dialogue text of an item is its display text with every
\* backslash and curly brace of the source text and the translation
\* escaped, and in bilingual mode with a non-empty translation the escaped
\* source and the escaped translation are joined by exactly a backslash
\* followed by N.
C16_EscapedText ==
    AssWritten =>
       \A j \in 1..Len(AssShown) :
          LET item == sub_items[AssShown[j]]
              shown == AssTextOf(event_lines[j])
          IN IF translated_only
             THEN shown = Escaped(IF HasTranslation(item)
                                  THEN item.translation ELSE item.text)
             ELSE IF bilingual /\ HasTranslation(item)
             THEN shown = Escaped(item.text) \o <<"\\", "N">>
                             \o Escaped(item.translation)
             ELSE shown = Escaped(item.text)

\* the same with the joining sequence as the code writes it, its backslash
\* doubled by the escaping
EscapedWithDoubledJoin ==
    AssWritten =>
       \A j \in 1..Len(AssShown) :
          LET item == sub_items[AssShown[j]]
              shown == AssTextOf(event_lines[j])
          IN IF translated_only
             THEN shown = Escaped(IF HasTranslation(item)
                                  THEN item.translation ELSE item.text)
             ELSE IF bilingual /\ HasTranslation(item)
             THEN shown = Escaped(item.text) \o <<"\\", "\\", "N">>
                             \o Escaped(item.translation)
             ELSE shown = Escaped(item.text)

SrtAppended(k) ==
    LET F[j \in 0..Len(sub_items)] ==
           IF j = 0 THEN 0
           ELSE F[j - 1] + 3 + (IF bilingual /\ ~translated_only
                                      /\ HasTranslation(sub_items[j])
                                THEN 2 ELSE 1)
    IN SubSeq(lines, F[k - 1] + 3, F[k] - 1)

DigitVal(c) == CHOOSE d \in 0..9 : Digits[d + 1] = c

\* the number a run of decimal digits denotes
NumOf(s) ==
    LET F[i \in 0..Len(s)] ==
           IF i = 0 THEN 0 ELSE 10 * F[i - 1] + DigitVal(s[i])
    IN F[Len(s)]

\* ts reads HH:MM:SS,mmm and its fields add up to ms milliseconds
ReadsAsSrtTime(ts, ms) ==
    /\ Len(ts) = 12
    /\ ts[3] = ":" /\ ts[6] = ":" /\ ts[9] = ","
    /\ \A k \in {1, 2, 4, 5, 7, 8, 10, 11, 12} : ts[k] \in Range(Digits)
    /\ LET h == NumOf(SubSeq(ts, 1, 2))
           m == NumOf(SubSeq(ts, 4, 5))
           sec == NumOf(SubSeq(ts, 7, 8))
           frac == NumOf(SubSeq(ts, 10, 12))
       IN /\ m < 60 /\ sec < 60 /\ frac < 1000
          /\ (h * 3600 + m * 60 + sec) * 1000 + frac = ms

\* ts reads H:MM:SS.cc and its fields add up to cs centiseconds
ReadsAsAssTime(ts, cs) ==
    /\ Len(ts) = 10
    /\ ts[2] = ":" /\ ts[5] = ":" /\ ts[8] = "."
    /\ \A k \in {1, 3, 4, 6, 7, 9, 10} : ts[k] \in Range(Digits)
    /\ LET h == NumOf(SubSeq(ts, 1, 1))
           m == NumOf(SubSeq(ts, 3, 4))
           sec == NumOf(SubSeq(ts, 6, 7))
           frac == NumOf(SubSeq(ts, 9, 10))
       IN /\ m < 60 /\ sec < 60 /\ frac < 100
          /\ (h * 3600 + m * 60 + sec) * 100 + frac = cs

\* what the claim says of one time t (tenths of a millisecond) rendered as ts
SrtTimeOK(t, ts) ==
    /\ t < 0 => ts = <<"0", "0", ":", "0", "0", ":", "0", "0", ",",
                       "0", "0", "0">>
    /\ (t >= 0 /\ t % 10 = 0) => ReadsAsSrtTime(ts, t \div 10)
    /\ t = 15000 => ts = <<"0", "0", ":", "0", "0", ":", "0", "1", ",",
                           "5", "0", "0">>
    /\ t = 36612340 => ts = <<"0", "1", ":", "0", "1", ":", "0", "1", ",",
                              "2", "3", "4">>

AssTimeOK(t, ts) ==
    /\ t < 0 => ts = <<"0", ":", "0", "0", ":", "0", "0", ".", "0", "0">>
    /\ (t >= 0 /\ t % 100 = 0) => ReadsAsAssTime(ts, t \div 100)
    /\ t = 15000 => ts = <<"0", ":", "0", "0", ":", "0", "1", ".", "5", "0">>

\* C18: a time that is a whole number of milliseconds (centiseconds for
\* ASS) is rendered as HH:MM:SS,mmm (H:MM:SS.cc) with minutes and seconds
\* below 60, the fraction below 1000 (100), and the fields adding up to the
\* time; a negative time renders as zero; 1.5 s renders as 00:00:01,500 and
\* 0:00:01.50, 3661.234 s as 01:01:01,234.
C18_TimestampFields ==
    [][/\ (sub_pc = "srt" /\ lines' # lines) =>
             LET item == sub_items[render_idx + 1]
                 range == lines'[Len(lines) + 2]
             IN /\ Len(range) = 29
                /\ SubSeq(range, 13, 17) = <<" ", "-", "-", ">", " ">>
                /\ SrtTimeOK(item.start, SubSeq(range, 1, 12))
                /\ SrtTimeOK(item.end, SubSeq(range, 18, 29))
       /\ (sub_pc = "ass" /\ event_lines' # event_lines) =>
             LET item == sub_items[render_idx + 1]
                 event == event_lines'[Len(event_lines')]
             IN /\ AssTimeOK(item.start, SubSeq(event, 2, 11))
                /\ AssTimeOK(item.end, SubSeq(event, 13, 22))]_vars

\* both serializers have rendered a negative time, 1.5 s and 3661.234 s
C18_Witness ==
    /\ sub_pc = "done"
    /\ Len(event_lines) = Len(sub_items)
    /\ \E k \in 1..Len(sub_items) : sub_items[k].start < 0
    /\ \E k \in 1..Len(sub_items) :
          sub_items[k].start = 15000 /\ sub_items[k].end = 36612340

----------------------------------------------------------------------------
(* Properties of the sentences' spans and of the dropped words *)

\* the stream is non-decreasing by start and no word ends before it starts
WellTimed ==
    /\ \A i \in 1..Len(words) : words[i].start <= words[i].end
    /\ \A i \in 1..(Len(words) - 1) : words[i].start <= words[i + 1].start

\* C19: for a stream that is non-decreasing by start with start <= end in
\* every word, every emitted Sentence has a non-empty words list that is a
\* contiguous run of the stream, starts with its first word, ends with its
\* last word, and has start <= end.
C19_SentenceSpan ==
    WellTimed =>
       \A k \in 1..Len(sentences) :
          LET s == sentences[k] IN
          /\ s.words # <<>>
          /\ \A j \in 1..Len(s.words) :
                /\ s.words[j] \in 1..Len(words)
                /\ j > 1 => s.words[j] = s.words[j - 1] + 1
          /\ s.start = words[s.words[1]].start
          /\ s.end = words[s.words[Len(s.words)]].end
          /\ s.start <= s.end

\* a finished run over timed words with a sentence of several words
C19_Witness ==
    /\ seg_pc = "done"
    /\ WellTimed
    /\ \E k \in 1..Len(sentences) :
          /\ Len(sentences[k].words) >= 2
          /\ sentences[k].start < sentences[k].end
          /\ sentences[k].end # words[sentences[k].words[1]].end

\* a token of whitespace only
WhitespaceOnly(token) == \A k \in 1..Len(token) : IsSpace(token[k])

\* a token of whitespace and of the punctuation the stripping removes
BlankWhenStripped(token) ==
    \A k \in 1..Len(token) :
       \/ IsSpace(token[k])
       \/ token[k] \in BREAK_PUNCTUATION \ NON_BREAK_PUNCTUATION

----------------------------------------------------------------------------
(* Properties of the final flush *)

\* the iteration of the loop that appends the last input word
LastStep == seg_pc = "loop" /\ idx + 1 = Len(words)

\* C21 as stated: when words_to_sentences returns, the buffer is empty and
\* the remaining buffered words have been emitted as one sentence that ends
\* with the last input word.
C21_Original ==
    [][LastStep =>
         /\ buffer_words' = <<>>
         /\ sentences' # <<>>
         /\ LET s == sentences'[Len(sentences')] IN
               s.words[Len(s.words)] = Len(words)]_vars

\* C21 (amended): for a non-empty word list the last iteration leaves the
\* buffer empty and the function returns, whatever the last word ends in
\* and whatever the buffer's length; the words still buffered are emitted
\* as one sentence ending with the last input word, unless their text is
\* empty after trimming (and after the trailing-punctuation stripping when
\* it is on), in which case they are dropped without a sentence.
C21_FinalFlush ==
    [][LastStep =>
         /\ buffer_words' = <<>>
         /\ seg_pc' = "done"
         /\ Len(sentences') <= Len(sentences) + 2
         /\ LET emitted == FlattenWords(sentences')
                from == IF emitted = <<>> THEN 1
                        ELSE emitted[Len(emitted)] + 1
            IN IF from > Len(words)
               THEN /\ NewSentences # {}
                    /\ sentences'[Len(sentences')].words[
                          Len(sentences'[Len(sentences')].words)] = Len(words)
               ELSE SentenceText(TextsOf(from, Len(words)), strip_punct) = <<>>
       ]_vars

\* a finished run whose last word ends in no punctuation and was flushed
\* with earlier buffered words
C21_Witness ==
    /\ seg_pc = "done"
    /\ sentences # <<>>
    /\ ~IsBreakableToken(words[Len(words)].text)
    /\ LET s == sentences[Len(sentences)] IN
          /\ Len(s.words) >= 2
          /\ s.words[Len(s.words)] = Len(words)

----------------------------------------------------------------------------
(* Properties of M2M100Translator.translate_subtitles *)

\* C25: when M2M100Translator.translate_subtitles returns, it has issued
\* one batch call for the whole list (none for an empty list, which it
\* returns as it is) and the result has exactly len(items) entries: the
\* first entries are the outputs of the batch call at their own positions
\* and the entries the call did not supply, at the tail, are empty strings.
C25_M2MAligned ==
    (engine = "m2m100" /\ tr_pc \in {"returned", "assigned"}) =>
        /\ Len(returned) = Len(items)
        /\ calls = (IF items = <<>> THEN <<>> ELSE <<"m2m_batch">>)
        /\ \E k \in 0..Len(items) :
              /\ \A i \in 1..k :
                    returned[i] = Strip(Translate(items[i].text))
              /\ \A i \in (k + 1)..Len(items) : returned[i] = <<>>

\* a returned list whose last entry was padded
C25_Witness ==
    /\ engine = "m2m100" /\ tr_pc = "returned"
    /\ Len(items) >= 2
    /\ returned[1] # <<>>
    /\ returned[Len(items)] = <<>>
    /\ Strip(Translate(items[Len(items)].text)) # <<>>

----------------------------------------------------------------------------
(* Properties of M2M100Translator._normalize_lang *)

IsSeparator(c) == c \in {"-", "_"}

\* base-REGION or base_REGION, surrounding blanks aside
Qualified(code) ==
    LET raw == Strip(code) IN
    \E k \in 2..(Len(raw) - 1) :
        /\ IsSeparator(raw[k])
        /\ \A j \in 1..Len(raw) : IsSeparator(raw[j]) => j = k

BaseOf(code) ==
    LET raw == Strip(code)
        k == CHOOSE j \in 1..Len(raw) : IsSeparator(raw[j])
    IN Lower(SubSeq(raw, 1, k - 1))

NormalizedAsClaimed(code, n) ==
    /\ Upper(Strip(code)) \in { <<"E", "N">>, <<"E", "U">> } => n = <<"e", "n">>
    /\ Qualified(code) => n = BaseOf(code)
    /\ normalize_lang(n) = n

\* C26: _normalize_lang maps the presets EN and EU, in any letter case, to
\* "en", maps every region- or script-qualified code to its base language
\* code, and returns an already normalized code unchanged; stated of the
\* two codes translate_subtitles normalizes.
C26_Normalize ==
    tokenizer_src_lang # None =>
        /\ NormalizedAsClaimed(source_lang, tokenizer_src_lang)
        /\ NormalizedAsClaimed(target_lang, forced_lang)

----------------------------------------------------------------------------
(* Items with an empty text *)

EmptyItems == {i \in 1..Len(items) : items[i].text = <<>>}

\* C30: for each backend, an item whose text is empty does not make
\* translate_subtitles raise, and the entry of the returned list at that
\* item's position is the empty string.
C30_EmptyStaysEmpty ==
    /\ (engine = "google" /\ EmptyItems # {}) => tr_pc # "raised"
    /\ tr_pc \in {"returned", "assigned"} =>
          \A i \in EmptyItems : returned[i] = <<>>

----------------------------------------------------------------------------
(* Properties of the multilingual branch of run_to_subtitles *)

Conclusive(i) == detected_log[i] # Absent

\* the language the claim gives item i: its own, else that of the nearest
\* earlier item with a detection, else the seed
ClaimedLang(i) ==
    IF Conclusive(i) THEN detected_log[i]
    ELSE IF \E j \in 1..(i - 1) : Conclusive(j)
    THEN detected_log[CHOOSE j \in 1..(i - 1) :
                         /\ Conclusive(j)
                         /\ \A k \in (j + 1)..(i - 1) : ~Conclusive(k)]
    ELSE EnCode

\* C22: in the multilingual m2m100 branch each item is assigned the
\* language detected for its own text when detect_lang_code returns one,
\* otherwise the language of the nearest preceding item that had one, and
\* "en" if no earlier item had one.
C22_StickyLanguage ==
    /\ Len(detected_log) = Len(assigned_lang)
    /\ \A i \in 1..Len(assigned_lang) : assigned_lang[i] = ClaimedLang(i)

\* two different detections followed by an item without one
C22_Witness ==
    /\ Len(assigned_lang) = 3
    /\ Conclusive(1) /\ Conclusive(2) /\ ~Conclusive(3)
    /\ detected_log[1] # detected_log[2]
    /\ assigned_lang[3] = detected_log[2]

\* the multilingual branch has made all its calls
MultiDone ==
    /\ pipe_pc \in {"assign", "write_main", "write_source",
                    "write_translated", "write_bilingual", "done"}
       \/ (pipe_pc = "failed" /\ failure = "OSError")
    /\ config.translate_lang # <<>>
    /\ IsMultilingual(config)

GroupsOf(i) ==
    {g \in 1..Len(lang_to_indices) :
        \E k \in 1..Len(lang_to_indices[g].indices) :
            lang_to_indices[g].indices[k] = i}

\* C23: in the multilingual branch the language groups partition the item
\* positions, one translate_subtitles call is made per distinct assigned
\* language, and after the calls translations[i] is the entry that the
\* call for item i's language returned at item i's place in its group.
C23_GroupedWriteBack ==
    /\ Len(assigned_lang) = Len(p_items) =>
          /\ \A i \in 1..Len(p_items) : Cardinality(GroupsOf(i)) = 1
          /\ \A g \in 1..Len(lang_to_indices) :
                LET ind == lang_to_indices[g].indices IN
                /\ \A k \in 1..Len(ind) :
                      /\ ind[k] \in 1..Len(p_items)
                      /\ assigned_lang[ind[k]] = lang_to_indices[g].lang
                      /\ \A m \in 1..Len(ind) : ind[m] = ind[k] => m = k
                /\ \A h \in 1..Len(lang_to_indices) :
                      lang_to_indices[h].lang = lang_to_indices[g].lang
                         => h = g
    /\ MultiDone =>
          /\ Len(backend_calls) = Cardinality(Range(assigned_lang))
          /\ \A c, d \in 1..Len(backend_calls) :
                backend_calls[c].source_lang = backend_calls[d].source_lang
                   => c = d
          /\ Len(p_translations) = Len(p_items)
          /\ \A i \in 1..Len(p_items) :
                \E c \in 1..Len(backend_calls) :
                   /\ backend_calls[c].source_lang = assigned_lang[i]
                   /\ \E k \in 1..Len(backend_calls[c].indices) :
                         backend_calls[c].indices[k] = i
                   /\ p_translations[i] =
                         backend_calls[c].result[
                            PlaceIn(backend_calls[c].indices, i)]

\* two groups whose positions interleave, every item translated
C23_Witness ==
    /\ MultiDone
    /\ Len(lang_to_indices) = 2
    /\ lang_to_indices[1].indices = <<1, 3>>
    /\ lang_to_indices[2].indices = <<2>>
    /\ \A i \in 1..3 : p_translations[i] # <<>>
    /\ p_translations[2] # p_translations[3]

----------------------------------------------------------------------------
(* Properties of run_to_subtitles: translations and files *)

IsWritten(f) == Len(f) = 2

AllAbsent(tr) == \A i \in 1..Len(tr) : tr[i] = Absent

NoneAbsent(tr) == \A i \in 1..Len(tr) : tr[i] # Absent

SubtitleFiles == Range(OutputKinds)

\* C24: every item's translation is absent until the backend's call or
\* calls have returned; it is then assigned once; and whenever an output
\* file is written either all items carry a translation string or none
\* does, also when translation is disabled or the backend raises (no
\* subtitle file is then written).
C24_AllOrNone ==
    /\ pipe_pc \in {"translation", "translate", "detect", "group_calls",
                    "assign"} => AllAbsent(p_translation)
    /\ (pipe_pc = "failed" /\ failure \in {"BackendError", "RuntimeError"}) =>
          /\ AllAbsent(p_translation)
          /\ \A k \in SubtitleFiles : files[k] = Absent
    /\ \A i \in 1..Len(p_items) :
          /\ assign_count[i] <= 1
          /\ assign_count[i] = 1 <=> p_translation[i] # Absent
    /\ pipe_pc \in {"write_main", "write_source", "write_translated",
                    "write_bilingual", "done"} =>
          /\ AllAbsent(p_translation) \/ NoneAbsent(p_translation)
          /\ config.translate_lang = <<>> => AllAbsent(p_translation)
          /\ config.translate_lang # <<>> => NoneAbsent(p_translation)
    /\ \A k \in SubtitleFiles :
          IsWritten(files[k]) =>
             AllAbsent(files[k][2]) \/ NoneAbsent(files[k][2])

\* a file written from several items that all carry a translation
C24_Witness ==
    /\ IsWritten(files["main"])
    /\ Len(p_items) >= 2
    /\ NoneAbsent(files["main"][2])
    /\ \A i \in 1..Len(p_items) : assign_count[i] = 1

\* C29: when a step of the run fails, every output file written before it
\* (the audio file, the main SRT, the earlier variant SRTs) is as it was:
\* no file is deleted or rewritten on failure.
C29_FilesKeptOnFailure ==
    [][pipe_pc' = "failed" =>
          \A k \in DOMAIN files :
              files[k] # Absent => files'[k] = files[k]]_vars

\* a run that failed writing a variant after two subtitle files were written
C29_Witness ==
    /\ pipe_pc = "failed" /\ failure = "OSError"
    /\ files["audio"] # Absent
    /\ IsWritten(files["main"])
    /\ IsWritten(files["source"])
    /\ ~IsWritten(files["translated"])

----------------------------------------------------------------------------
(* Properties of a whole run *)

\* C27: with the LLM backend selected and its URL or model missing, the
\* run fails with the configuration error before any pipeline work has
\* started: no stage has run and no file is written before the error.
C27_ConfigErrorFirst ==
    (/\ config.translation_engine = "llm"
     /\ config.translate_lang # <<>>
     /\ ~config.llm_configured) =>
        /\ stage_log = <<>>
        /\ files = NoFiles
        /\ pipe_pc = "failed" => failure = "RuntimeError"

StageOrder ==
    <<"extraction", "transcription", "segmentation", "build", "translation",
      "serialization">>

StagePlace(s) == CHOOSE n \in 1..Len(StageOrder) : StageOrder[n] = s

InStageOrder(log) ==
    \A a, b \in 1..Len(log) :
        a < b => StagePlace(log[a]) < StagePlace(log[b])

----------------------------------------------------------------------------
(* words_to_sentences as a function of its arguments *)

\* values of the max_silence argument, in the unit of the word times
SilenceSet == {0, 7, 1000}

\* the for loop from iteration i on
RECURSIVE SegFold(_, _, _, _, _)
SegFold(b, i, ws, mc, enabled) ==
    IF i >= Len(ws) THEN b
    ELSE SegFold(LoopBody(b, i, ws, mc, enabled), i + 1, ws, mc, enabled)

EmptyBuffers ==
    [sentences |-> <<>>, buffer_words |-> <<>>, buffer_text_parts |-> <<>>,
     last_breakable_idx |-> -1]

\* the loop of a segmenter that also breaks before a word that starts more
\* than max_silence after the end of the word before it
RECURSIVE SilenceFold(_, _, _, _, _, _)
SilenceFold(b, i, ws, ms, mc, enabled) ==
    IF i >= Len(ws) THEN b
    ELSE LET n == Len(b.buffer_words)
             b0 == IF n > 0 /\ ws[i + 1].start - ws[b.buffer_words[n]].end > ms
                   THEN flush_up_to(b, n - 1, enabled)
                   ELSE b
         IN SilenceFold(LoopBody(b0, i, ws, mc, enabled), i + 1, ws, ms, mc,
                        enabled)

words_to_sentences_Silence(ws, ms, mc, enabled) ==
    IF ws = <<>> THEN <<>>
    ELSE SilenceFold(EmptyBuffers, 0, ws, ms, mc, enabled).sentences

\* words_to_sentences(words, max_silence, max_chars): max_silence is not
\* read
words_to_sentences(ws, ms, mc, enabled) ==
    IF ws = <<>> THEN <<>>
    ELSE SegFold(EmptyBuffers, 0, ws, mc, enabled).sentences

----------------------------------------------------------------------------
(* the empty transcript *)

EmptySegmented == (seg_pc = "done" /\ words = <<>>) => sentences = <<>>

EmptyBuilt ==
    (sub_pc \notin {"off", "build"} /\ sub_sentences = <<>>) => sub_items = <<>>

EmptyTranslated ==
    (tr_pc # "start" /\ tr_pc # "off" /\ items = <<>>) =>
        /\ tr_pc \in {"returned", "assigned"}
        /\ returned = <<>>
        /\ calls = <<>>

EmptySerialized ==
    /\ (SrtWritten /\ sub_items = <<>>) => srt_text = <<"\n">>
    /\ (AssWritten /\ sub_items = <<>>) =>
          ass_text = Join(<<"\n">>, AssHeader) \o <<"\n">>

\* C32: a transcript of zero words is not an error: words_to_sentences
\* returns an empty list, sentences_to_subtitle_items of it returns an
\* empty list, translate_subtitles of every backend returns an empty list
\* for it without a backend call, and the empty item list is serialized.
C32_EmptyTranscript ==
    EmptySegmented /\ EmptyBuilt /\ EmptyTranslated /\ EmptySerialized

----------------------------------------------------------------------------
(* the length-overflow cut *)

\* the buffer of the step being taken, after the append
Grown == Append(buffer_words, idx + 1)

GrownTexts == [j \in 1..Len(Grown) |-> words[Grown[j]].text]

Overflows == Len(JoinSpace(GrownTexts)) > max_chars

BreakablePlaces == {p \in 1..Len(Grown) : IsBreakableToken(GrownTexts[p])}

\* the buffer place (1-based) the claim cuts an overlong buffer at
CutPlace ==
    IF BreakablePlaces = {} THEN Len(Grown)
    ELSE CHOOSE p \in BreakablePlaces : \A q \in BreakablePlaces : q <= p

NonTerminalStep ==
    seg_pc = "loop" /\ ~is_sentence_end_token(words[idx + 1].text)

\* the word lists of the sentences appended by the step being taken
NewWordLists ==
    [k \in 1..(Len(sentences') - Len(sentences)) |->
        sentences'[Len(sentences) + k].words]

EmitsText(ws) ==
    SentenceText([j \in 1..Len(ws) |-> words[ws[j]].text], strip_punct) # <<>>

\* C33 as stated: a non-terminal word that makes the joined buffer longer
\* than max_chars flushes exactly once in its step, at the last buffered
\* word ending in breakable punctuation if there is one (the prefix up to it
\* is emitted, the words after it stay as the new buffer), else at the
\* current word (the whole buffer is emitted); a non-terminal word that is
\* not the last input word and does not overflow emits nothing and the
\* buffer grows by that word only.
C33_Original ==
    [][NonTerminalStep =>
         /\ Overflows =>
               /\ SubSeq(sentences', 1, Len(sentences)) = sentences
               /\ NewWordLists = <<SubSeq(Grown, 1, CutPlace)>>
               /\ buffer_words' = SubSeq(Grown, CutPlace + 1, Len(Grown))
         /\ (~Overflows /\ ~LastStep) =>
               /\ sentences' = sentences
               /\ buffer_words' = Grown]_vars

\* C33 (amended): on such an overflow the buffer is cut once at that place;
\* the prefix is emitted as a sentence unless its final text is empty; the
\* words after the cut stay as the new buffer, except when the word is the
\* last input word: then the final flush takes them too, as a second
\* sentence unless their text is empty, and the buffer ends empty. Without
\* overflow, and not at the last word, nothing is emitted and the buffer
\* grows by that word only.
C33_OverflowCut ==
    [][NonTerminalStep =>
         /\ Overflows =>
               LET pre == SubSeq(Grown, 1, CutPlace)
                   rest == SubSeq(Grown, CutPlace + 1, Len(Grown))
                   pieces == IF LastStep /\ rest # <<>> THEN <<pre, rest>>
                             ELSE <<pre>>
               IN /\ SubSeq(sentences', 1, Len(sentences)) = sentences
                  /\ NewWordLists = SelectSeq(pieces, EmitsText)
                  /\ buffer_words' = IF LastStep THEN <<>> ELSE rest
         /\ (~Overflows /\ ~LastStep) =>
               /\ sentences' = sentences
               /\ buffer_words' = Grown]_vars

\* an overlong buffer was cut at an earlier word ending in a comma and the
\* two words after it are still buffered
C33_Witness ==
    /\ seg_pc = "loop"
    /\ Len(buffer_words) >= 2
    /\ buffer_words[Len(buffer_words)] = idx
    /\ sentences # <<>>
    /\ LET s == sentences[Len(sentences)]
           cut == s.words[Len(s.words)]
       IN /\ cut + 1 = buffer_words[1]
          /\ IsBreakableToken(words[cut].text)
          /\ ~is_sentence_end_token(words[cut].text)

----------------------------------------------------------------------------
(* the breakable-position tracker *)

\* the 0-based buffer position of the last token text that ends, trimmed,
\* in a breakable character that is no quote or bracket; -1 without one
GreatestBreakable(parts) ==
    LET hits == {p \in 1..Len(parts) :
                    LET t == Strip(parts[p]) IN
                    /\ t # <<>>
                    /\ t[Len(t)] \in BREAK_PUNCTUATION
                    /\ t[Len(t)] \notin NON_BREAK_PUNCTUATION}
    IN IF hits = {} THEN -1
       ELSE (CHOOSE p \in hits : \A q \in hits : q <= p) - 1

\* the buffers at the point of the next iteration where break_index is
\* chosen: after the append and _update_last_breakable_index
AtDecision ==
    update_last_breakable_index(
        [SegState EXCEPT !.buffer_words = Append(@, idx + 1),
                         !.buffer_text_parts = Append(@, words[idx + 1].text)])

\* C34: where a flush is decided last_breakable_idx is -1 if no buffered
\* word ends in a breakable character, else the greatest buffer position of
\* such a word; after a flush it is that value over the retained remainder,
\* so it never points into the flushed prefix or outside the buffer.
C34_TrackerExact ==
    /\ last_breakable_idx = GreatestBreakable(buffer_text_parts)
    /\ last_breakable_idx \in -1..(Len(buffer_words) - 1)
    /\ seg_pc = "loop" =>
          AtDecision.last_breakable_idx
             = GreatestBreakable(AtDecision.buffer_text_parts)

\* after a flush, the next decision is taken over a buffer whose tracked
\* word is not the one just appended
C34_Witness ==
    /\ seg_pc = "loop"
    /\ sentences # <<>>
    /\ buffer_words # <<>>
    /\ AtDecision.last_breakable_idx >= 0
    /\ AtDecision.last_breakable_idx < Len(AtDecision.buffer_words) - 1

----------------------------------------------------------------------------
(* no sentence-terminal word waits in the buffer *)

EndsTerminal(token) ==
    LET t == Strip(token) IN
    t # <<>> /\ t[Len(t)] \in SENTENCE_END_PUNCTUATION

\* C39: between loop iterations the buffer holds no word whose trimmed text
\* ends in a sentence-terminal character, so a breakable position carried
\* to a later step is that of a word ending in breakable punctuation that
\* is not terminal.
C39_NoTerminalBuffered ==
    /\ \A p \in 1..Len(buffer_words) : ~EndsTerminal(words[buffer_words[p]].text)
    /\ last_breakable_idx >= 0 =>
          LET t == Strip(words[buffer_words[last_breakable_idx + 1]].text) IN
          /\ t[Len(t)] \in BREAK_PUNCTUATION \ SENTENCE_END_PUNCTUATION

\* a terminal word was flushed with the words before it and the buffer now
\* carries a word ending in a comma
C39_Witness ==
    /\ seg_pc = "loop"
    /\ last_breakable_idx >= 0
    /\ sentences # <<>>
    /\ LET s == sentences[Len(sentences)] IN
          /\ Len(s.words) >= 2
          /\ EndsTerminal(words[s.words[Len(s.words)]].text)

----------------------------------------------------------------------------
(* the text of an emitted sentence *)

\* the trimmed space-joined text of a sentence's words
BaseText(s) ==
    Strip(JoinSpace([j \in 1..Len(s.words) |-> words[s.words[j]].text]))

\* t without its maximal trailing run of breakable punctuation and
\* whitespace: the longest prefix of t that is empty or ends in a character
\* that is neither
WithoutTrailingRun(t) ==
    LET stops == {n \in 1..Len(t) :
                     t[n] \notin BREAK_PUNCTUATION /\ ~IsSpace(t[n])}
    IN IF stops = {} THEN <<>>
       ELSE SubSeq(t, 1, CHOOSE n \in stops : \A m \in stops : m <= n)

\* C36: with the trailing-punctuation switch off an emitted sentence's text
\* is the trimmed space-joined text of its words; with it on, that text
\* without its maximal trailing run of breakable punctuation (and the
\* whitespace between), ending at the first trailing character that is not
\* breakable punctuation, a quote or bracket included; stripping the result
\* again changes nothing.
C36_SentenceText ==
    \A k \in 1..Len(sentences) :
       LET s == sentences[k] IN
       /\ ~strip_punct => s.text = BaseText(s)
       /\ strip_punct =>
             /\ s.text = WithoutTrailingRun(BaseText(s))
             /\ strip_trailing_punct_if_enabled(s.text, TRUE) = s.text

\* with the switch on, a sentence that lost a comma, a space and a full stop
C36_Witness ==
    /\ strip_punct
    /\ \E k \in 1..Len(sentences) :
          LET s == sentences[k]
              t == BaseText(s)
          IN /\ Len(t) >= Len(s.text) + 3
             /\ t[Len(t)] \in BREAK_PUNCTUATION
             /\ IsSpace(t[Len(t) - 1])

----------------------------------------------------------------------------
(* the worker pool is drained before control returns *)

PoolRun == engine \in {"google", "llm"} /\ groups # <<>> /\ WorkerCount > 1

\* C35: through a pool of more than one worker, translate_subtitles of the
\* Google and LLM backends returns or raises only after every submitted
\* unit has finished, and returns only after every result is merged; after
\* an LLM batch failure the other submitted units still run to their end
\* before the error reaches the caller.
C35_PoolDrained ==
    PoolRun =>
       /\ tr_pc \in {"returned", "assigned", "raised"} =>
             \A u \in Units : responses[u] # None
       /\ tr_pc \in {"returned", "assigned"} => merged = Units

\* an LLM run of three batches raised: a batch failed, and a batch that
\* answered well ran to its end without being merged
C35_Witness ==
    /\ engine = "llm" /\ tr_pc = "raised"
    /\ PoolRun
    /\ Len(groups) >= 3
    /\ \E u \in Units : Raises(responses[u])
    /\ \E u \in Units : ~Raises(responses[u]) /\ u \notin merged

----------------------------------------------------------------------------
(* the pool against the sequential loop *)

\* what the loop "for unit in units" does with the answers of this run: the
\* LLM loop leaves with the exception of the first batch that fails
SequentialRaises == engine = "llm" /\ \E u \in Units : Raises(responses[u])

SequentialResult == IF engine = "google" THEN GoogleInOrder ELSE LLMInOrder

\* C37: with the answer of every group or batch held fixed, a run through
\* the pool ends as the sequential run does: it raises if that one raises
\* and otherwise returns the same list.
C37_PoolAsSequential ==
    PoolRun =>
       /\ Returned => (~SequentialRaises /\ returned = SequentialResult)
       /\ (tr_pc = "raised" /\ \A u \in Units : responses[u] # None)
             => SequentialRaises

----------------------------------------------------------------------------
(* translated_only and bilingual both set *)

BothFlags == bilingual /\ translated_only

RenderStep(pc) == sub_pc = pc /\ render_idx' = render_idx + 1

\* the one text line of an item rendered translated-only
OnlyLine(item) ==
    IF Truthy(item.translation) THEN item.translation ELSE item.text

\* C38: with translated_only and bilingual both set, subtitle_items_to_srt
\* and subtitle_items_to_ass render every item as with translated_only
\* alone: translated_only takes precedence and no item gets two text lines.
C38_TranslatedOnlyWins ==
    [][BothFlags =>
         LET item == sub_items[render_idx + 1] IN
         /\ RenderStep("srt") =>
               /\ \E tie_up \in BOOLEAN :
                     lines' = lines \o SrtBlock(item, FALSE, TRUE, tie_up)
               /\ Len(lines') = Len(lines) + 4
               /\ lines'[Len(lines) + 3] = OnlyLine(item)
         /\ RenderStep("ass") =>
               \E tie_up \in BOOLEAN :
                  event_lines' =
                     IF AssSkips(OnlyLine(item)) THEN event_lines
                     ELSE Append(event_lines,
                                 AssEvent(item, FALSE, TRUE, tie_up))]_vars

\* both flags set, both texts written, an item with a translation of its own
C38_Witness ==
    /\ BothFlags
    /\ sub_pc = "done"
    /\ event_lines # <<>>
    /\ \E k \in 1..Len(sub_items) :
          /\ Truthy(sub_items[k].translation)
          /\ Strip(sub_items[k].translation) # <<>>
          /\ sub_items[k].translation # sub_items[k].text

====
